---- MODULE Spec2Model ----
(***************************************************************************)
(* IBAN extraction-and-validation engine of iban-cam-scanner               *)
(* (src/src/lib/ibanValidator.ts) and the callers that hand text to it.    *)
(*                                                                         *)
(* A JavaScript string is modelled as a sequence of characters, each       *)
(* character a one-character TLA+ string ("G", "8", " ").  Two characters  *)
(* outside ASCII are carried as named tokens because String.toUpperCase    *)
(* maps them into A-Z.                                                     *)
(***************************************************************************)
EXTENDS Integers, Sequences, FiniteSets, TLC

VARIABLES
    arg,        \* the value handed to the function under call
    call,       \* "none" or the name of the exported function that ran
    outcome,    \* how the call completed: returned value or thrown error
    origin,     \* "external" (OCR engine, user) or "scanner" (onIBANDetected)
    iban_records,   \* the rows of the table public.iban_records
    localStorage,   \* the list stored under the key 'iban_records'
    issued,     \* how many identifiers (UUIDs) have been generated
    clock,      \* the time of day, as Date.now() and now() read it
    screen,     \* the state of the Index page and of the screen it shows
    last,       \* the last call made to a record store, and what it returned
    scanner     \* the state, refs and pending work of the camera scanner

\* The variables of the extraction-and-validation engine.
engineVars == <<arg, call, outcome, origin>>

\* The variables of the record stores and of the screens that use them.
storeVars == <<iban_records, localStorage, issued, clock, screen, last>>

vars == <<arg, call, outcome, origin, iban_records, localStorage, issued,
          clock, screen, last, scanner>>

(***************************************************************************)
(* Characters and strings                                                  *)
(***************************************************************************)

\* The characters of a TLA+ string literal, as a sequence.
Chars(s) == [i \in 1..Len(s) |-> SubSeq(s, i, i)]

Range(s) == {s[i] : i \in 1..Len(s)}

Min(a, b) == IF a < b THEN a ELSE b

UPPER == Chars("ABCDEFGHIJKLMNOPQRSTUVWXYZ")

LOWER == Chars("abcdefghijklmnopqrstuvwxyz")

DIGITS == Chars("0123456789")

\* U+00DF LATIN SMALL LETTER SHARP S: toUpperCase gives "SS".
SHARP_S == "U+00DF"

\* U+0131 LATIN SMALL LETTER DOTLESS I: toUpperCase gives "I".
DOTLESS_I == "U+0131"

\* The character class [A-Z].
AZ == Range(UPPER)

\* The character class [0-9].
Digit09 == Range(DIGITS)

\* The character class [A-Z0-9].
AZ09 == AZ \cup Digit09

\* The characters \s matches and trim() strips, among those of the model.
WhiteSpace == {" ", "\t", "\n", "\r"}

\* The characters . does not match.
LineTerminator == {"\n", "\r"}

IndexIn(seq, c) == CHOOSE i \in 1..Len(seq) : seq[i] = c

\* String.prototype.charCodeAt(0) of a one-character string, for the
\* characters whose code the program reads (letters and digits).
charCodeAt(c) ==
    IF c \in AZ THEN 64 + IndexIn(UPPER, c)
    ELSE IF c \in Range(LOWER) THEN 96 + IndexIn(LOWER, c)
    ELSE 47 + IndexIn(DIGITS, c)

\* The upper-case mapping of one character: a string of one or two characters.
upperOf(c) ==
    IF c \in Range(LOWER) THEN <<UPPER[IndexIn(LOWER, c)]>>
    ELSE IF c = SHARP_S THEN <<"S", "S">>
    ELSE IF c = DOTLESS_I THEN <<"I">>
    ELSE <<c>>

RECURSIVE toUpperCase(_)
toUpperCase(s) ==
    IF s = <<>> THEN <<>> ELSE upperOf(Head(s)) \o toUpperCase(Tail(s))

\* s.replace(/[^A-Z0-9]/g, '')
removeNonAZ09(s) == SelectSeq(s, LAMBDA c : c \in AZ09)

\* s.replace(/\s+/g, '')
removeWhiteSpace(s) == SelectSeq(s, LAMBDA c : c \notin WhiteSpace)

RECURSIVE trimStart(_)
trimStart(s) ==
    IF s # <<>> /\ Head(s) \in WhiteSpace THEN trimStart(Tail(s)) ELSE s

RECURSIVE trimEnd(_)
trimEnd(s) ==
    IF s # <<>> /\ s[Len(s)] \in WhiteSpace
    THEN trimEnd(SubSeq(s, 1, Len(s) - 1))
    ELSE s

\* String.prototype.trim
trim(s) == trimEnd(trimStart(s))

\* s.substring(from, to) for 0 <= from <= to, clamped to the string.
substring(s, from, to) == SubSeq(s, Min(from, Len(s)) + 1, Min(to, Len(s)))

\* s.substring(from)
substringFrom(s, from) == SubSeq(s, Min(from, Len(s)) + 1, Len(s))

\* Number.prototype.toString() of a natural number: its decimal digits.
RECURSIVE toString(_)
toString(n) ==
    IF n < 10 THEN <<DIGITS[n + 1]>>
    ELSE toString(n \div 10) \o <<DIGITS[(n % 10) + 1]>>

\* parseInt of a one-character string holding a decimal digit.
parseInt(c) == charCodeAt(c) - 48

(***************************************************************************)
(* The country-length table                                                *)
(***************************************************************************)

\* The entries of the table, in the order the source lists them.
IBAN_LENGTHS_ENTRIES ==
    <<<<"AD", 24>>, <<"AE", 23>>, <<"AL", 28>>, <<"AT", 20>>,
      <<"AZ", 28>>, <<"BA", 20>>, <<"BE", 16>>, <<"BG", 22>>,
      <<"BH", 22>>, <<"BR", 29>>, <<"BY", 28>>, <<"CH", 21>>,
      <<"CR", 22>>, <<"CY", 28>>, <<"CZ", 24>>, <<"DE", 22>>,
      <<"DK", 18>>, <<"DO", 28>>, <<"EE", 20>>, <<"EG", 29>>,
      <<"ES", 24>>, <<"FI", 18>>, <<"FO", 18>>, <<"FR", 27>>,
      <<"GB", 22>>, <<"GE", 22>>, <<"GI", 23>>, <<"GL", 18>>,
      <<"GR", 27>>, <<"GT", 28>>, <<"HR", 21>>, <<"HU", 28>>,
      <<"IE", 22>>, <<"IL", 23>>, <<"IS", 26>>, <<"IT", 27>>,
      <<"JO", 30>>, <<"KW", 30>>, <<"KZ", 20>>, <<"LB", 28>>,
      <<"LC", 32>>, <<"LI", 21>>, <<"LT", 20>>, <<"LU", 20>>,
      <<"LV", 21>>, <<"MC", 27>>, <<"MD", 24>>, <<"ME", 22>>,
      <<"MK", 19>>, <<"MR", 27>>, <<"MT", 31>>, <<"MU", 30>>,
      <<"NL", 18>>, <<"NO", 15>>, <<"PK", 24>>, <<"PL", 28>>,
      <<"PS", 29>>, <<"PT", 25>>, <<"QA", 29>>, <<"RO", 24>>,
      <<"RS", 22>>, <<"SA", 24>>, <<"SE", 24>>, <<"SI", 19>>,
      <<"SK", 24>>, <<"SM", 27>>, <<"TN", 24>>, <<"TR", 26>>,
      <<"UA", 29>>, <<"VA", 22>>, <<"VG", 24>>, <<"XK", 20>>>>

\* The table as a mapping from property key to length.
IBAN_LENGTHS ==
    [k \in {IBAN_LENGTHS_ENTRIES[i][1] : i \in DOMAIN IBAN_LENGTHS_ENTRIES} |->
        IBAN_LENGTHS_ENTRIES[
            CHOOSE i \in DOMAIN IBAN_LENGTHS_ENTRIES :
                IBAN_LENGTHS_ENTRIES[i][1] = k][2]]

\* The property key a two-character country code names.
keyOf(countryCode) == countryCode[1] \o countryCode[2]

\* IBAN_LENGTHS[countryCode] is a number (truthy), not undefined.
hasExpectedLength(countryCode) ==
    Len(countryCode) = 2 /\ keyOf(countryCode) \in DOMAIN IBAN_LENGTHS

\* IBAN_LENGTHS[countryCode], where it is defined.
expectedLengthOf(countryCode) == IBAN_LENGTHS[keyOf(countryCode)]

(***************************************************************************)
(* cleanIBAN                                                               *)
(***************************************************************************)

\* s.replace(/[^A-Z0-9]/, ''): without the g flag only the first match goes.
RECURSIVE removeFirstNonAZ09(_)
removeFirstNonAZ09(s) ==
    IF s = <<>> THEN <<>>
    ELSE IF Head(s) \notin AZ09 THEN Tail(s)
    ELSE <<Head(s)>> \o removeFirstNonAZ09(Tail(s))

\* Faulty variant of cleanIBAN: the replace has lost its g flag.
cleanIBAN_firstOnly(input) == trim(removeFirstNonAZ09(toUpperCase(input)))

cleanIBAN(input) == trim(removeNonAZ09(toUpperCase(input)))

(***************************************************************************)
(* validateIBAN                                                            *)
(***************************************************************************)

\* Faulty variant of charToNumber: the offset is one short, so A=11 ... Z=36.
charToNumber_offByOne(char) == charCodeAt(char) - 54

charToNumber(char) == charCodeAt(char) - 55

\* Faulty variant of the loop of mod97: the remainder is shifted by two decimal
\* places for every digit.
RECURSIVE mod97From_times100(_, _, _)
mod97From_times100(numericString, i, remainder) ==
    IF i > Len(numericString) THEN remainder
    ELSE mod97From_times100(numericString, i + 1,
                            (remainder * 100 + parseInt(numericString[i])) % 97)

\* The loop of mod97 from the i-th digit (1-based) on.
RECURSIVE mod97From(_, _, _)
mod97From(numericString, i, remainder) ==
    IF i > Len(numericString) THEN remainder
    ELSE mod97From(numericString, i + 1,
                   (remainder * 10 + parseInt(numericString[i])) % 97)

mod97(numericString) == mod97From(numericString, 1, 0)

\* The values remainder * 10 + parseInt(numericString[i]) that the loop of
\* mod97 reduces, one per digit.
mod97Intermediates(numericString) ==
    [k \in 1..Len(numericString) |->
        mod97From(SubSeq(numericString, 1, k - 1), 1, 0) * 10
            + parseInt(numericString[k])]

\* Step 2 of the checksum: every letter replaced by the digits of its value.
RECURSIVE toNumericString(_)
toNumericString(rearranged) ==
    IF rearranged = <<>> THEN <<>>
    ELSE (IF Head(rearranged) \in AZ
          THEN toString(charToNumber(Head(rearranged)))
          ELSE <<Head(rearranged)>>)
         \o toNumericString(Tail(rearranged))

\* /^[A-Z]{2}$/.test(s)
isTwoLetters(s) == Len(s) = 2 /\ s[1] \in AZ /\ s[2] \in AZ

\* /^[0-9]{2}$/.test(s)
isTwoDigits(s) == Len(s) = 2 /\ s[1] \in Digit09 /\ s[2] \in Digit09

\* The result objects.  The program's error strings are Arabic sentences, one
\* per kind; the model names them by kind.  details carries the template and
\* the values interpolated into it.
Failure(kind, countryCode, expectedLength) ==
    [isValid |-> FALSE, error |-> kind,
     details |-> [about |-> kind, countryCode |-> countryCode,
                  expectedLength |-> expectedLength]]

Success(countryCode) ==
    [isValid |-> TRUE, error |-> "undefined",
     details |-> [about |-> "Valid", countryCode |-> countryCode,
                  expectedLength |-> 0]]

\* Step 1 of the checksum: the first four characters moved to the end.
rearrange(cleaned) == substringFrom(cleaned, 4) \o substring(cleaned, 0, 4)

\* Faulty variant of wrongLengthForCountry: < in place of !==, so an identifier
\* longer than the table's length goes on to the checksum.
wrongLengthForCountry_shorterOnly(cleaned, countryCode) ==
    /\ hasExpectedLength(countryCode)
    /\ Len(cleaned) < expectedLengthOf(countryCode)

\* expectedLength && cleaned.length !== expectedLength
wrongLengthForCountry(cleaned, countryCode) ==
    /\ hasExpectedLength(countryCode)
    /\ Len(cleaned) # expectedLengthOf(countryCode)

\* Faulty variant of validateIBAN's checks: the check digits are tested before
\* the country code.
validateCleaned_checkDigitsFirst(cleaned) ==
    LET countryCode == substring(cleaned, 0, 2)
        checkDigits == substring(cleaned, 2, 4)
    IN  IF Len(cleaned) < 15 THEN Failure("TooShort", <<>>, 0)
        ELSE IF ~isTwoDigits(checkDigits)
        THEN Failure("BadCheckDigits", <<>>, 0)
        ELSE IF ~isTwoLetters(countryCode)
        THEN Failure("BadCountryCode", <<>>, 0)
        ELSE IF wrongLengthForCountry(cleaned, countryCode)
        THEN Failure("WrongLengthForCountry", countryCode,
                     expectedLengthOf(countryCode))
        ELSE IF mod97(toNumericString(rearrange(cleaned))) # 1
        THEN Failure("ChecksumFailed", <<>>, 0)
        ELSE Success(countryCode)

validateCleaned(cleaned) ==
    LET countryCode == substring(cleaned, 0, 2)
        checkDigits == substring(cleaned, 2, 4)
    IN  IF Len(cleaned) < 15 THEN Failure("TooShort", <<>>, 0)
        ELSE IF ~isTwoLetters(countryCode)
        THEN Failure("BadCountryCode", <<>>, 0)
        ELSE IF ~isTwoDigits(checkDigits)
        THEN Failure("BadCheckDigits", <<>>, 0)
        ELSE IF wrongLengthForCountry(cleaned, countryCode)
        THEN Failure("WrongLengthForCountry", countryCode,
                     expectedLengthOf(countryCode))
        ELSE IF mod97(toNumericString(rearrange(cleaned))) # 1
        THEN Failure("ChecksumFailed", <<>>, 0)
        ELSE Success(countryCode)

\* Faulty variant of validateIBAN: the argument is checked as it came.
validateIBAN_uncleaned(iban) == validateCleaned(iban)

validateIBAN(iban) == validateCleaned(cleanIBAN(iban))

(***************************************************************************)
(* formatIBANForDisplay                                                    *)
(***************************************************************************)

\* Faulty variant of the grouping: /(.{3})./g, so the space takes the place of
\* every fourth character.
RECURSIVE spaceAfterEach4_dropsFourth(_)
spaceAfterEach4_dropsFourth(s) ==
    IF s = <<>> THEN <<>>
    ELSE IF Len(s) >= 4 /\ \A i \in 1..4 : s[i] \notin LineTerminator
    THEN SubSeq(s, 1, 3) \o <<" ">>
         \o spaceAfterEach4_dropsFourth(SubSeq(s, 5, Len(s)))
    ELSE <<Head(s)>> \o spaceAfterEach4_dropsFourth(Tail(s))

\* s.replace(/(.{4})/g, '$1 ')
RECURSIVE spaceAfterEach4(_)
spaceAfterEach4(s) ==
    IF s = <<>> THEN <<>>
    ELSE IF Len(s) >= 4 /\ \A i \in 1..4 : s[i] \notin LineTerminator
    THEN SubSeq(s, 1, 4) \o <<" ">> \o spaceAfterEach4(SubSeq(s, 5, Len(s)))
    ELSE <<Head(s)>> \o spaceAfterEach4(Tail(s))

\* Faulty variant of formatIBANForDisplay: the trim() is missing.
formatIBANForDisplay_untrimmed(iban) == spaceAfterEach4(cleanIBAN(iban))

formatIBANForDisplay(iban) == trim(spaceAfterEach4(cleanIBAN(iban)))

(***************************************************************************)
(* generateIBANVariations                                                  *)
(***************************************************************************)

\* Faulty variant of the table: the group of 5 and S is typed with a 3.
confusions_3forS ==
    <<Chars("0OQD"), Chars("1IL|"), Chars("3S"), Chars("8B"), Chars("6G"),
      Chars("7T")>>

confusions ==
    <<Chars("0OQD"), Chars("1IL|"), Chars("5S"), Chars("8B"), Chars("6G"),
      Chars("7T")>>

\* Faulty variant: a group is found by its first member only, so a letter
\* that stands for a digit has no group.
groupIncluding_digitOnly(char) ==
    LET hits == {g \in 1..Len(confusions) : char = confusions[g][1]}
    IN  IF hits = {} THEN <<>>
        ELSE confusions[CHOOSE g \in hits : \A h \in hits : g <= h]

\* The first group of confusions that includes char; <<>> when none does.
groupIncluding(char) ==
    LET hits == {g \in 1..Len(confusions) : char \in Range(confusions[g])}
    IN  IF hits = {} THEN <<>>
        ELSE confusions[CHOOSE g \in hits : \A h \in hits : g <= h]

\* Faulty variant of the inner loop: only the first member of the group is
\* tried as the alternate.
pushAlternates_firstOnly(variations, iban, i, group, k) ==
    IF group = <<>> \/ group[1] = iban[i + 1] THEN variations
    ELSE Append(variations,
                substring(iban, 0, i) \o <<group[1]>> \o substringFrom(iban, i + 1))

\* Faulty variant of the inner loop: it does not stop at 15.
RECURSIVE pushAlternates_noBreak(_, _, _, _, _)
pushAlternates_noBreak(variations, iban, i, group, k) ==
    IF k > Len(group) THEN variations
    ELSE IF group[k] # iban[i + 1]
    THEN pushAlternates_noBreak(
             Append(variations,
                    substring(iban, 0, i) \o <<group[k]>>
                        \o substringFrom(iban, i + 1)),
             iban, i, group, k + 1)
    ELSE pushAlternates_noBreak(variations, iban, i, group, k + 1)

\* The inner loop over the alternates of group, from its k-th member on, for
\* position i (0-based) of iban: push one variation per alternate, stop at 15.
RECURSIVE pushAlternates(_, _, _, _, _)
pushAlternates(variations, iban, i, group, k) ==
    IF k > Len(group) THEN variations
    ELSE IF group[k] # iban[i + 1]
    THEN LET variation ==
                 substring(iban, 0, i) \o <<group[k]>> \o substringFrom(iban, i + 1)
             pushed == Append(variations, variation)
         IN  IF Len(pushed) >= 15 THEN pushed
             ELSE pushAlternates(pushed, iban, i, group, k + 1)
    ELSE pushAlternates(variations, iban, i, group, k + 1)

\* The outer loop, from position i (0-based) on.
RECURSIVE variationsFrom(_, _, _)
variationsFrom(variations, iban, i) ==
    IF ~(i < Len(iban) /\ Len(variations) < 15) THEN variations
    ELSE variationsFrom(
             pushAlternates(variations, iban, i, groupIncluding(iban[i + 1]), 1),
             iban, i + 1)

\* Faulty variant: the outer loop starts at the first character.
generateIBANVariations_fromStart(iban) == variationsFrom(<<iban>>, iban, 0)

generateIBANVariations(iban) == variationsFrom(<<iban>>, iban, 2)

(***************************************************************************)
(* extractIBANFromText                                                     *)
(***************************************************************************)

\* JavaScript values that are handed around: a string, null, undefined, a number.
String(s) == [type |-> "string", str |-> s]

null == [type |-> "null", str |-> <<>>]

undefined == [type |-> "undefined", str |-> <<>>]

aNumber == [type |-> "number", str |-> <<>>]

\* The corrections list: every occurrence of from becomes to.
corrections ==
    <<<<"O", "0">>, <<"Q", "0">>, <<"D", "0">>, <<"I", "1">>, <<"L", "1">>,
      <<"|", "1">>, <<"l", "1">>, <<"S", "5">>, <<"Z", "2">>, <<"B", "8">>,
      <<"G", "6">>, <<"T", "7">>>>

\* Faulty variant of the replace: without the g flag only the first occurrence
\* is replaced.
replaceAll_firstOnly(s, from, to) ==
    [i \in 1..Len(s) |->
        IF s[i] = from /\ \A j \in 1..(i - 1) : s[j] # from THEN to ELSE s[i]]

\* s.replace(/c/g, to) for a single character c
replaceAll(s, from, to) == [i \in 1..Len(s) |-> IF s[i] = from THEN to ELSE s[i]]

\* The loop over corrections, from its k-th entry on.
RECURSIVE applyCorrections(_, _)
applyCorrections(correctedText, k) ==
    IF k > Len(corrections) THEN correctedText
    ELSE applyCorrections(
             replaceAll(correctedText, corrections[k][1], corrections[k][2]),
             k + 1)

\* /[A-Z]{2}[0-9]{2}[A-Z0-9]+/ matches at position p (1-based) of s.
matchesAt(s, p) ==
    /\ p + 4 <= Len(s)
    /\ s[p] \in AZ /\ s[p + 1] \in AZ
    /\ s[p + 2] \in Digit09 /\ s[p + 3] \in Digit09
    /\ s[p + 4] \in AZ09

\* The last position of the run of [A-Z0-9] that holds position q.
RECURSIVE runEnd(_, _)
runEnd(s, q) ==
    IF q + 1 <= Len(s) /\ s[q + 1] \in AZ09 THEN runEnd(s, q + 1) ELSE q

\* textToSearch.match(/[A-Z]{2}[0-9]{2}[A-Z0-9]+/g), scanning from p: the
\* matches left to right, each greedy, none overlapping ([] for null).
RECURSIVE matchAll(_, _)
matchAll(s, p) ==
    IF p > Len(s) THEN <<>>
    ELSE IF matchesAt(s, p)
    THEN <<SubSeq(s, p, runEnd(s, p + 4))>> \o matchAll(s, runEnd(s, p + 4) + 1)
    ELSE matchAll(s, p + 1)

\* Faulty variant of the loop over variations: it returns exactIban (the first
\* entry) where it should return the variation that validated.
RECURSIVE firstValidVariation_returnsExact(_, _)
firstValidVariation_returnsExact(variations, k) ==
    IF k > Len(variations) THEN null
    ELSE IF validateIBAN(variations[k]).isValid THEN String(variations[1])
    ELSE firstValidVariation_returnsExact(variations, k + 1)

\* The loop over variations, from the k-th on: the first that validates.
RECURSIVE firstValidVariation(_, _)
firstValidVariation(variations, k) ==
    IF k > Len(variations) THEN null
    ELSE IF validateIBAN(variations[k]).isValid THEN String(variations[k])
    ELSE firstValidVariation(variations, k + 1)

\* Faulty variant of the loop over the lengths: the prefix is returned without
\* being validated.
firstValidPrefix_unvalidated(potential, len) ==
    IF ~(len <= Min(31, Len(potential))) THEN null
    ELSE String(substring(potential, 0, len))

\* Faulty variant of the loop over the lengths: a later valid prefix replaces
\* an earlier one, so the longest is returned.
RECURSIVE firstValidPrefix_longestFirst(_, _)
firstValidPrefix_longestFirst(potential, len) ==
    IF ~(len <= Min(31, Len(potential))) THEN null
    ELSE LET longer == firstValidPrefix_longestFirst(potential, len + 1)
         IN  IF longer # null THEN longer
             ELSE IF validateIBAN(substring(potential, 0, len)).isValid
             THEN String(substring(potential, 0, len))
             ELSE null

\* The loop over the lengths len..min(31, potential.length).
RECURSIVE firstValidPrefix(_, _)
firstValidPrefix(potential, len) ==
    IF ~(len <= Min(31, Len(potential))) THEN null
    ELSE IF validateIBAN(substring(potential, 0, len)).isValid
    THEN String(substring(potential, 0, len))
    ELSE firstValidPrefix(potential, len + 1)

\* Faulty variant of the loop body: the match is not cut to the country's length.
tryPotential_wholeMatch(potential) ==
    LET countryCode == substring(potential, 0, 2)
    IN  IF hasExpectedLength(countryCode)
        THEN IF validateIBAN(potential).isValid THEN String(potential)
             ELSE firstValidVariation(generateIBANVariations(potential), 1)
        ELSE firstValidPrefix(potential, 18)

\* Faulty variant of the loop body: the match is cut one character beyond the
\* country's length.
tryPotential_oneTooLong(potential) ==
    LET countryCode == substring(potential, 0, 2)
    IN  IF hasExpectedLength(countryCode)
        THEN LET exactIban ==
                     substring(potential, 0, expectedLengthOf(countryCode) + 1)
             IN  IF validateIBAN(exactIban).isValid THEN String(exactIban)
                 ELSE firstValidVariation(generateIBANVariations(exactIban), 1)
        ELSE firstValidPrefix(potential, 18)

\* The body of the loop over potentialMatches: the value it returns, or null
\* when it runs to its end.
tryPotential(potential) ==
    LET countryCode == substring(potential, 0, 2)
    IN  IF hasExpectedLength(countryCode)
        THEN LET exactIban ==
                     substring(potential, 0, expectedLengthOf(countryCode))
             IN  IF validateIBAN(exactIban).isValid THEN String(exactIban)
                 ELSE firstValidVariation(generateIBANVariations(exactIban), 1)
        ELSE firstValidPrefix(potential, 18)

\* Faulty variant of the loop over potentialMatches: it goes on after a match
\* gave a result, so the last match that gives one wins.
RECURSIVE searchMatches_lastWins(_, _)
searchMatches_lastWins(potentialMatches, k) ==
    IF k > Len(potentialMatches) THEN null
    ELSE LET later == searchMatches_lastWins(potentialMatches, k + 1)
         IN  IF later # null THEN later ELSE tryPotential(potentialMatches[k])

\* The loop over potentialMatches, from the k-th on.
RECURSIVE searchMatches(_, _)
searchMatches(potentialMatches, k) ==
    IF k > Len(potentialMatches) THEN null
    ELSE LET returned == tryPotential(potentialMatches[k])
         IN  IF returned # null THEN returned
             ELSE searchMatches(potentialMatches, k + 1)

\* Faulty variant of the loop over textsToTry: the texts are tried last to
\* first, the corrected text before the original.
RECURSIVE searchTexts_correctedFirst(_, _)
searchTexts_correctedFirst(textsToTry, k) ==
    IF k > Len(textsToTry) THEN null
    ELSE LET later == searchTexts_correctedFirst(textsToTry, k + 1)
         IN  IF later # null THEN later
             ELSE searchMatches(matchAll(textsToTry[k], 1), 1)

\* The loop over textsToTry, from the k-th on.
RECURSIVE searchTexts(_, _)
searchTexts(textsToTry, k) ==
    IF k > Len(textsToTry) THEN null
    ELSE LET returned == searchMatches(matchAll(textsToTry[k], 1), 1)
         IN  IF returned # null THEN returned
             ELSE searchTexts(textsToTry, k + 1)

\* s.replace(/\s+/, ''): only the first run of whitespace is removed.
RECURSIVE removeFirstWhiteSpaceRun(_)
removeFirstWhiteSpaceRun(s) ==
    IF s = <<>> THEN <<>>
    ELSE IF Head(s) \in WhiteSpace THEN trimStart(s)
    ELSE <<Head(s)>> \o removeFirstWhiteSpaceRun(Tail(s))

\* Faulty variant of the cleaning: the replace has lost its g flag.
cleanedTextOf_firstRunOnly(text) == toUpperCase(removeFirstWhiteSpaceRun(text))

\* const cleanedText = text.replace(/\s+/g, '').toUpperCase()
cleanedTextOf(text) == toUpperCase(removeWhiteSpace(text))

extractIBANFromText(text) ==
    LET cleanedText == cleanedTextOf(text)
        correctedText == applyCorrections(cleanedText, 1)
    IN  searchTexts(<<cleanedText, correctedText>>, 1)

(***************************************************************************)
(* The texts and values handed to the engine                               *)
(***************************************************************************)

\* How far from the table's length the lengths of the per-country inputs go.
LenSlack == 1

\* The longest string drawn letter by letter from SmallAlphabet.
MaxLen == 4

\* The characters an account body is cut from.
BODY_PATTERN == Chars("WEST12345698765432ABCD0123456789")

\* A number below 100 as two digits.
twoDigits(n) == <<DIGITS[(n \div 10) + 1], DIGITS[(n % 10) + 1]>>

\* The check digits that make countryCode + digits + body pass the checksum:
\* 98 minus the remainder of the identifier written with "00" in their place.
checkDigitsFor(countryCode, body) ==
    twoDigits(98 - mod97(toNumericString(body \o countryCode \o <<"0", "0">>)))

\* The identifiers of length n for one table entry: the account body cut from
\* BODY_PATTERN, check digits "00" and the computed ones.
TableIdentifiers(entry, n) ==
    LET countryCode == Chars(entry[1])
        body == SubSeq(BODY_PATTERN, 1, n - 4)
    IN  {countryCode \o cd \o body :
            cd \in {<<"0", "0">>, checkDigitsFor(countryCode, body)}}

\* For every table entry, identifiers of the table's length and of the lengths
\* within LenSlack of it.
TableInputs ==
    UNION {UNION {TableIdentifiers(entry, n) :
                      n \in (entry[2] - LenSlack)..(entry[2] + LenSlack)} :
               entry \in Range(IBAN_LENGTHS_ENTRIES)}

\* Three account bodies under every pair of check digits 00..99: a known
\* country with letters in the body, the shortest known country, and a country
\* code the table does not hold.
SweepInputs ==
    {Chars(p[1]) \o twoDigits(k) \o Chars(p[2]) :
        p \in {<<"GB", "WEST12345698765432">>, <<"NO", "86011117947">>,
               <<"XX", "12345678901234">>},
        k \in 0..99}

\* Identifiers that break one or several of the well-formedness checks: a
\* four-character head, well formed or not, before a tail that makes the whole
\* too short, of GB's length, or longer.
MalformedInputs ==
    {Chars(head) \o Chars(tail) :
        head \in {"GB82", "G182", "1B82", "GB8A", "GBX2", "12AB", "8282",
                  "XX42", "XXA2", "gb82", "G-B8", "NO93", "N093"},
        tail \in {"", "WEST1234", "86011117947", "WEST12345698765432",
                  "WEST1234569876543299"}}

\* Valid identifiers: known countries (with and without letters that blanket
\* correction rewrites in the country code), and an unknown country.
VALID_IBANS ==
    {"GB82WEST12345698765432", "NO9386011117947", "BE68539007547034",
     "MK07250120000058984", "XX4212345678901234", "XX35WEST1234567890"}

\* Readings of the valid identifiers with characters confused: one character
\* (at several distances from the start), two characters, characters the
\* confusion groups do not relate, and a truncated reading.
MISREAD_IBANS ==
    {"GB82WEST123456987654O2", "GB82WE5T12345698765432",
     "GB82WEST12345698765A32", "GB82WEST1234569B765432",
     "GB82WEST12345698765Z32", "6B82WEST12345698765432",
     "GBB2WEST12345698765432", "GB82WEST1234569876543",
     "MK072501200000589B4", "MK07250120OOOO58984", "MK0725O12OOOOO58984",
     "MKO7250120000058984", "MK07Z50120000058984",
     "NO93B6011117947", "N09386011117947", "NO938601|117947",
     "BE6B539007547034", "BE68S39OO7S47O34",
     "XX42I2345678901234", "XX42123456789012340",
     "GB82WE3T12345698765432", "GB82WEST1234569876543Z",
     "XX35WE5T1234567890", "XX421234567890123418",
     "GB22WEST12345698761241"}

\* The same identifier as it is written, printed and read: grouped in fours,
\* in lower case, hyphenated, broken over lines, labelled.
Decorated(iban) ==
    {iban,
     formatIBANForDisplay(iban),
     [i \in 1..Len(iban) |->
         IF iban[i] \in AZ THEN LOWER[IndexIn(UPPER, iban[i])] ELSE iban[i]],
     SubSeq(iban, 1, 4) \o <<"-">> \o SubSeq(iban, 5, Len(iban)),
     SubSeq(iban, 1, 4) \o <<"-">> \o SubSeq(iban, 5, 8) \o <<"-">>
         \o SubSeq(iban, 9, Len(iban)),
     SubSeq(iban, 1, 9) \o <<"\n">> \o SubSeq(iban, 10, Len(iban)),
     <<" ", "\t">> \o iban \o <<"\r", "\n">>,
     Chars("IBAN: ") \o iban}

DecoratedInputs ==
    UNION {Decorated(Chars(iban)) : iban \in VALID_IBANS \cup MISREAD_IBANS}

\* The glyphs an OCR engine confuses, group by group.
GLYPH_GROUPS ==
    <<Chars("0OQD"), Chars("1IL|"), Chars("5S"), Chars("8B"), Chars("6G"),
      Chars("7T"), Chars("2Z")>>

\* The glyphs that c is confused with.
LookAlikes(c) ==
    UNION {Range(GLYPH_GROUPS[g]) \ {c} :
               g \in {g \in 1..Len(GLYPH_GROUPS) : c \in Range(GLYPH_GROUPS[g])}}

\* iban with the character at position i (1-based) replaced by c.
ReplacedAt(iban, i, c) == [k \in 1..Len(iban) |-> IF k = i THEN c ELSE iban[k]]

\* Every reading of iban with one character after the check digits taken for
\* a look-alike.
MisreadsOf(iban) ==
    UNION {{ReplacedAt(iban, i, c) : c \in LookAlikes(iban[i])} :
               i \in 5..Len(iban)}

\* Such readings of valid identifiers of known countries.
SingleMisreads ==
    UNION {MisreadsOf(Chars(iban)) :
               iban \in {"GB82WEST12345698765432", "NO9386011117947",
                         "BE68539007547034", "MK07250120000058984"}}

\* What the OCR engine reads around an identifier.
NOISE_BEFORE ==
    {"", "noise", "...noise...", "IBAN:", "Account 12", "Ref AB12", "No. 7",
     "pay NO9386011117947 or", "stra" }

NOISE_AFTER == {"", "noise", "...noise...", "42", "BIC WESTGB22"}

SEPARATORS == {<<" ">>, <<"\n">>, <<>>}

\* OCR text: noise, an identifier, noise, with the same separator on both sides.
OcrTexts ==
    {Chars(before) \o sep \o Chars(iban) \o sep \o Chars(after) :
        before \in NOISE_BEFORE, after \in NOISE_AFTER, sep \in SEPARATORS,
        iban \in VALID_IBANS \cup
                 {"GB82WEST123456987654O2", "GB82WE5T12345698765432",
                  "MK07250120OOOO58984", "XX42123456789012340"}}

\* Text that holds no identifier, and text with characters outside ASCII.
OtherTexts ==
    {Chars("randomtext"), Chars("GB82WEST12345698765433"),
     Chars("NO9386011117947/GB82WEST12345698765432"),
     Chars("GB82WE5T12345698765432;NO9386011117947"),
     Chars("GB82WEST12345698765433, GB82WEST12345698765432"),
     Chars("GB82WEST12345698765433 some words here NO9386011117947"),
     Chars("XX441234567890123456789012345678"),
     Chars("MK07250120OOOO58984;NO9386011117947"),
     Chars("NO93860111117947"), Chars("N O 9 3 8 6 0 1 1 1 1 7 9 4 7"),
     Chars("iban: no93 8601 1117 947"), Chars("AB12"), Chars("AB12C"), Chars("ab 12 cd 34"),
     Chars("GB82"), Chars("1234567890123456"), Chars("ABCDEFGHIJKLMNOPQR"),
     Chars("stra") \o <<SHARP_S>> \o Chars("e 12"),
     <<"T", "R">> \o Chars("33000610051978645784") \o <<DOTLESS_I>> \o Chars("326"),
     <<"g", "b", "8", "2", "w", "e", SHARP_S>> \o Chars("12345698765432")}

\* The characters short strings are drawn from.
SmallAlphabet == {"g", "8", " ", "-", SHARP_S}

\* Every string of at most n characters of SmallAlphabet.
RECURSIVE StringsUpTo(_)
StringsUpTo(n) ==
    IF n = 0 THEN {<<>>}
    ELSE StringsUpTo(n - 1) \cup
         {Append(s, c) : s \in StringsUpTo(n - 1), c \in SmallAlphabet}

\* Every string the engine is handed.
Texts ==
    TableInputs \cup SweepInputs \cup MalformedInputs \cup DecoratedInputs
        \cup SingleMisreads \cup OcrTexts \cup OtherTexts
        \cup StringsUpTo(MaxLen)

\* Every value the engine is handed: the texts, and what a JavaScript caller
\* can pass in place of a string.
Inputs == {String(s) : s \in Texts} \cup {undefined, null, aNumber}

(***************************************************************************)
(* The calls                                                               *)
(***************************************************************************)

NoOutcome == [kind |-> "none", value |-> <<>>]

Returned(value) == [kind |-> "return", value |-> value]

Thrown(error) == [kind |-> "throw", value |-> error]

\* Each exported function starts by calling a string method on its argument
\* (toUpperCase, replace): that call throws a TypeError when the argument is
\* undefined, null or a number, and nothing catches it.
ThrowsTypeError(value) == value.type # "string"

\* No call has been made to a record store.
NoStoreCall ==
    [op |-> "none", user |-> "none", id |-> 0, found |-> 0, error |-> FALSE,
     returned |-> <<>>]

\* The page as Index first renders it: the home screen, nothing scanned.
HomeScreen ==
    [currentScreen |-> "home", scannedIBAN |-> <<>>, refreshRecords |-> 0,
     searchQuery |-> <<>>, records |-> <<>>]

\* The camera scanner as it mounts: nothing in progress, no live mode, and
\* the refs to the stream and to the interval empty.
ScannerAtStart ==
    [isProcessing |-> FALSE, isLiveMode |-> FALSE, lastScanTime |-> 0,
     streamRef |-> "null", scanIntervalRef |-> "null",
     starting |-> FALSE, picking |-> FALSE, inProgress |-> 0,
     ticking |-> [isProcessing |-> FALSE, lastScanTime |-> 0]]

\* The table has no rows, the browser's storage has no keys, and the page
\* shows the home screen.
StoresAtStart ==
    /\ scanner = ScannerAtStart
    /\ iban_records = {}
    /\ localStorage = <<>>
    /\ issued = 0
    /\ clock = 0
    /\ screen = HomeScreen
    /\ last = NoStoreCall

Init ==
    /\ arg \in Inputs
    /\ call = "none"
    /\ outcome = NoOutcome
    /\ origin = "external"
    /\ StoresAtStart

CallCleanIBAN ==
    /\ call = "none"
    /\ call' = "cleanIBAN"
    /\ outcome' = IF ThrowsTypeError(arg) THEN Thrown("TypeError")
                  ELSE Returned(cleanIBAN(arg.str))
    /\ UNCHANGED <<arg, origin>>
    /\ UNCHANGED <<storeVars, scanner>>

CallValidateIBAN ==
    /\ call = "none"
    /\ call' = "validateIBAN"
    /\ outcome' = IF ThrowsTypeError(arg) THEN Thrown("TypeError")
                  ELSE Returned(validateIBAN(arg.str))
    /\ UNCHANGED <<arg, origin>>
    /\ UNCHANGED <<storeVars, scanner>>

CallFormatIBANForDisplay ==
    /\ call = "none"
    /\ call' = "formatIBANForDisplay"
    /\ outcome' = IF ThrowsTypeError(arg) THEN Thrown("TypeError")
                  ELSE Returned(formatIBANForDisplay(arg.str))
    /\ UNCHANGED <<arg, origin>>
    /\ UNCHANGED <<storeVars, scanner>>

\* The scanners call extractIBANFromText on the text the OCR engine returned.
CallExtractIBANFromText ==
    /\ call = "none"
    /\ origin = "external"
    /\ call' = "extractIBANFromText"
    /\ outcome' = IF ThrowsTypeError(arg) THEN Thrown("TypeError")
                  ELSE Returned(extractIBANFromText(arg.str))
    /\ UNCHANGED <<arg, origin>>
    /\ UNCHANGED <<storeVars, scanner>>

\* const variations = generateIBANVariations(exactIban): the step of
\* extractIBANFromText for a match of a known country whose exactIban (the
\* match, cut to the country's length) did not validate. The outcome is the
\* list of variations.
CallGenerateIBANVariations ==
    /\ call = "none"
    /\ origin = "external"
    /\ arg.type = "string"
    /\ matchAll(arg.str, 1) = <<arg.str>>
    /\ hasExpectedLength(substring(arg.str, 0, 2))
    /\ Len(arg.str) <= expectedLengthOf(substring(arg.str, 0, 2))
    /\ ~validateIBAN(arg.str).isValid
    /\ call' = "generateIBANVariations"
    /\ outcome' = Returned(generateIBANVariations(arg.str))
    /\ UNCHANGED <<arg, origin>>
    /\ UNCHANGED <<storeVars, scanner>>

\* if (iban) onIBANDetected(iban, source): a found identifier becomes the iban
\* of the result screen, which validates and formats it.
OnIBANDetected ==
    /\ call = "extractIBANFromText"
    /\ outcome.kind = "return"
    /\ outcome.value.type = "string"
    /\ outcome.value.str # <<>>
    /\ arg' = outcome.value
    /\ call' = "none"
    /\ outcome' = NoOutcome
    /\ origin' = "scanner"
    /\ UNCHANGED <<storeVars, scanner>>

Next ==
    \/ CallCleanIBAN
    \/ CallValidateIBAN
    \/ CallFormatIBANForDisplay
    \/ CallExtractIBANFromText
    \/ CallGenerateIBANVariations
    \/ OnIBANDetected

Spec == Init /\ [][Next]_vars

(***************************************************************************)
(* What the properties are stated with                                     *)
(***************************************************************************)

\* A call of function f on a string returned.
ReturnedFrom(f) == call = f /\ arg.type = "string" /\ outcome.kind = "return"

\* The normalized form of x: uppercased, only A-Z and 0-9 kept, in order.
Normalized(x) == SelectSeq(toUpperCase(x), LAMBDA c : c \in AZ09)

\* t occurs in s as a contiguous substring.
IsSubstring(t, s) ==
    \E i \in 0..(Len(s) - Len(t)) : SubSeq(s, i + 1, i + Len(t)) = t

\* The value of a character in the checksum numeral: a digit stands for
\* itself, a letter for its place in the alphabet plus 9.
ValueOf(c) == IF c \in Digit09 THEN IndexIn(DIGITS, c) - 1 ELSE IndexIn(UPPER, c) + 9

\* 10^k modulo 97.
RECURSIVE Pow10Mod97(_)
Pow10Mod97(k) == IF k = 0 THEN 1 ELSE (10 * Pow10Mod97(k - 1)) % 97

\* The number of decimal digits the character takes in the numeral.
WidthOf(c) == IF c \in Digit09 THEN 1 ELSE 2

\* The remainder modulo 97 of the decimal numeral that s spells (letters by
\* their two-digit values), by positional weights from the right:
\* numeral(s . c) = numeral(s) * 10^width(c) + value(c).
RECURSIVE NumeralMod97(_)
NumeralMod97(s) ==
    IF s = <<>> THEN 0
    ELSE LET c == s[Len(s)]
         IN  (NumeralMod97(SubSeq(s, 1, Len(s) - 1)) * Pow10Mod97(WidthOf(c))
                  + ValueOf(c)) % 97

\* The first four characters of n moved to its end.
Rotated(n) == SubSeq(n, 5, Len(n)) \o SubSeq(n, 1, 4)

\* The well-formedness conditions on a normalized string, one by one.
LongEnough(n) == Len(n) >= 15

LettersFirst(n) == Len(n) >= 2 /\ n[1] \in AZ /\ n[2] \in AZ

DigitsNext(n) == Len(n) >= 4 /\ n[3] \in Digit09 /\ n[4] \in Digit09

KnownCountry(n) == Len(n) >= 2 /\ (n[1] \o n[2]) \in DOMAIN IBAN_LENGTHS

LengthFitsCountry(n) == KnownCountry(n) => Len(n) = IBAN_LENGTHS[n[1] \o n[2]]

ChecksumIsOne(n) == Len(n) >= 4 /\ NumeralMod97(Rotated(n)) = 1

(***************************************************************************)
(* Properties                                                              *)
(***************************************************************************)

\* C1: whatever extractIBANFromText returns other than null is a string that
\* validateIBAN accepts, on every path that can produce it; and the result
\* screen, handed that string by onIBANDetected, finds it valid.
C1_ExtractedIsValid ==
    /\ (ReturnedFrom("extractIBANFromText") /\ outcome.value # null)
           => validateIBAN(outcome.value.str).isValid
    /\ (origin = "scanner" /\ call = "validateIBAN")
           => outcome.kind = "return" /\ outcome.value.isValid

\* C1 happens: extraction returned a string that does not occur in the cleaned
\* text, so a variation or the blanket-corrected text produced it.
C1_Witness ==
    /\ ReturnedFrom("extractIBANFromText")
    /\ outcome.value # null
    /\ ~IsSubstring(outcome.value.str, cleanedTextOf(arg.str))

\* C2: validateIBAN(x).isValid is true exactly when the normalized form of x is
\* at least 15 long, starts with two letters and two digits, has the table's
\* length if its country is in the table, and its rotated numeral leaves
\* remainder 1 modulo 97; the reference identifier written in groups is valid
\* and the one with the last digit altered is not.
C2_ValidIffWellFormedAndChecksum ==
    ReturnedFrom("validateIBAN") =>
        LET n == Normalized(arg.str)
        IN  /\ outcome.value.isValid <=>
                   /\ LongEnough(n)
                   /\ LettersFirst(n)
                   /\ DigitsNext(n)
                   /\ LengthFitsCountry(n)
                   /\ ChecksumIsOne(n)
            /\ arg.str = Chars("GB82 WEST 1234 5698 7654 32")
                   => outcome.value.isValid
            /\ arg.str = Chars("GB82WEST12345698765433")
                   => ~outcome.value.isValid

\* C2 happens: an identifier written with separators and letters in its body
\* was validated and found valid.
C2_Witness ==
    /\ ReturnedFrom("validateIBAN")
    /\ outcome.value.isValid
    /\ arg.str # Normalized(arg.str)
    /\ \E i \in 5..Len(Normalized(arg.str)) : Normalized(arg.str)[i] \in AZ

\* The checks in the order of the error table, each with the condition under
\* which it fails.
Fails(kind, n) ==
    CASE kind = "TooShort" -> ~LongEnough(n)
      [] kind = "BadCountryCode" -> ~LettersFirst(n)
      [] kind = "BadCheckDigits" -> ~DigitsNext(n)
      [] kind = "WrongLengthForCountry" -> ~LengthFitsCountry(n)
      [] kind = "ChecksumFailed" -> ~ChecksumIsOne(n)

CheckOrder ==
    <<"TooShort", "BadCountryCode", "BadCheckDigits", "WrongLengthForCountry",
      "ChecksumFailed">>

\* C3: validateIBAN reports the kind of the first check that fails, in the
\* order TooShort, BadCountryCode, BadCheckDigits, WrongLengthForCountry,
\* ChecksumFailed; so ChecksumFailed is reported only for an identifier that
\* passes the four checks before it.
C3_FirstFailingCheckReported ==
    ReturnedFrom("validateIBAN") =>
        LET n == Normalized(arg.str)
            failing == {k \in 1..Len(CheckOrder) : Fails(CheckOrder[k], n)}
        IN  /\ failing = {} <=> outcome.value.error = "undefined"
            /\ failing # {} =>
                   outcome.value.error =
                       CheckOrder[CHOOSE k \in failing : \A j \in failing : k <= j]
            /\ outcome.value.error = "ChecksumFailed" =>
                   /\ LongEnough(n) /\ LettersFirst(n)
                   /\ DigitsNext(n) /\ LengthFitsCountry(n)

\* C3 happens: an identifier long enough, with neither letters first nor
\* digits next, was validated.
C3_Witness ==
    /\ ReturnedFrom("validateIBAN")
    /\ LongEnough(Normalized(arg.str))
    /\ ~LettersFirst(Normalized(arg.str))
    /\ ~DigitsNext(Normalized(arg.str))
    /\ outcome.value.error = "BadCountryCode"

\* C4: validating the cleaned string gives the same result (isValid, error,
\* details) as validating the string itself.
C4_ValidateOfCleanSame ==
    ReturnedFrom("validateIBAN") =>
        outcome.value = validateIBAN(cleanIBAN(arg.str))

\* C4 happens: a string that cleaning changes was validated, and the result
\* carries details that depend on the string.
C4_Witness ==
    /\ ReturnedFrom("validateIBAN")
    /\ cleanIBAN(arg.str) # arg.str
    /\ outcome.value.error = "WrongLengthForCountry"

\* C5: cleanIBAN returns the uppercased argument with every character outside
\* A-Z and 0-9 removed and the others in order; the result holds only A-Z and
\* 0-9, and cleaning it again changes nothing.
C5_CleanIdempotent ==
    ReturnedFrom("cleanIBAN") =>
        /\ Range(outcome.value) \subseteq AZ09
        /\ cleanIBAN(outcome.value) = outcome.value
        /\ outcome.value = Normalized(arg.str)

\* C5 happens: a string with lower-case letters and separators was cleaned to
\* something that is not empty.
C5_Witness ==
    /\ ReturnedFrom("cleanIBAN")
    /\ outcome.value # <<>>
    /\ \E i \in 1..Len(arg.str) : arg.str[i] \in Range(LOWER)
    /\ \E i \in 1..Len(arg.str) : arg.str[i] \in {" ", "-", "\n"}

\* C6: cleaning the display form gives what cleaning the string itself
\* gives: formatting adds only separators and loses no character.
C6_FormatRoundTrips ==
    ReturnedFrom("formatIBANForDisplay") =>
        cleanIBAN(outcome.value) = cleanIBAN(arg.str)

\* C6 happens: a string that is not in normalized form and cleans to more
\* than one group was formatted, and the display form differs from both.
C6_Witness ==
    /\ ReturnedFrom("formatIBANForDisplay")
    /\ Len(cleanIBAN(arg.str)) > 4
    /\ cleanIBAN(arg.str) # arg.str
    /\ outcome.value # cleanIBAN(arg.str)

\* C7: the display form is the cleaned identifier in blocks of four joined by
\* single spaces, a shorter last block included: every fifth character is a
\* space, the others are the cleaned characters in order, and the form neither
\* starts nor ends with a space, whatever the cleaned length.
C7_FormatBlocksOfFour ==
    ReturnedFrom("formatIBANForDisplay") =>
        LET n == Normalized(arg.str)
            out == outcome.value
        IN  /\ Len(out) = IF n = <<>> THEN 0 ELSE Len(n) + (Len(n) - 1) \div 4
            /\ \A k \in 1..Len(out) :
                   IF k % 5 = 0 THEN out[k] = " "
                   ELSE out[k] # " " /\ out[k] = n[k - k \div 5]
            /\ out # <<>> => out[1] # " " /\ out[Len(out)] # " "

\* C7 happens: an identifier whose cleaned length is a multiple of four, of
\* two blocks or more, was formatted.
C7_Witness ==
    /\ ReturnedFrom("formatIBANForDisplay")
    /\ Len(Normalized(arg.str)) >= 8
    /\ Len(Normalized(arg.str)) % 4 = 0

\* x is a country code of the table, two digits, then letters and digits.
HasKnownPrefixShape(x) ==
    /\ Len(x) >= 4
    /\ KnownCountry(x)
    /\ x[3] \in Digit09 /\ x[4] \in Digit09
    /\ \A i \in 5..Len(x) : x[i] \in AZ09

\* The check digits of x are the ones computed from its "00" form.
HasComputedCheckDigits(x) ==
    SubSeq(x, 3, 4) = checkDigitsFor(SubSeq(x, 1, 2), SubSeq(x, 5, Len(x)))

\* C8 as stated: an identifier of a table country with computed check digits
\* and the table's length validates, and one with the same prefix shape at any
\* other length fails with WrongLengthForCountry.
C8_AnyOtherLengthIsWrongLength ==
    (ReturnedFrom("validateIBAN") /\ HasKnownPrefixShape(arg.str)) =>
        LET expected == IBAN_LENGTHS[arg.str[1] \o arg.str[2]]
        IN  /\ (Len(arg.str) = expected /\ HasComputedCheckDigits(arg.str))
                   => outcome.value.isValid
            /\ Len(arg.str) # expected
                   => outcome.value.error = "WrongLengthForCountry"

\* C8, amended: an identifier of a table country with computed check digits
\* and the table's length validates; one with the same prefix shape at any
\* other length of 15 or more fails with WrongLengthForCountry, naming the
\* country and the table's length; one shorter than 15 fails with TooShort.
C8_OtherLengthFrom15IsWrongLength ==
    (ReturnedFrom("validateIBAN") /\ HasKnownPrefixShape(arg.str)) =>
        LET expected == IBAN_LENGTHS[arg.str[1] \o arg.str[2]]
        IN  /\ (Len(arg.str) = expected /\ HasComputedCheckDigits(arg.str))
                   => outcome.value.isValid
            /\ (Len(arg.str) # expected /\ Len(arg.str) >= 15)
                   => /\ outcome.value.error = "WrongLengthForCountry"
                      /\ outcome.value.details.countryCode = SubSeq(arg.str, 1, 2)
                      /\ outcome.value.details.expectedLength = expected
            /\ Len(arg.str) < 15 => outcome.value.error = "TooShort"

\* C8 happens: an identifier with computed check digits, one character longer
\* than its country's length, was validated.
C8_Witness ==
    /\ ReturnedFrom("validateIBAN")
    /\ HasKnownPrefixShape(arg.str)
    /\ HasComputedCheckDigits(arg.str)
    /\ Len(arg.str) = IBAN_LENGTHS[arg.str[1] \o arg.str[2]] + 1
    /\ outcome.value.error = "WrongLengthForCountry"

\* C9: validateIBAN never raises; the empty string and a non-string argument
\* are treated as length 0 and get isValid = false with kind TooShort.
C9_ValidateNeverRaises ==
    call = "validateIBAN" =>
        /\ outcome.kind = "return"
        /\ (arg.type # "string" \/ arg.str = <<>>) =>
               ~outcome.value.isValid /\ outcome.value.error = "TooShort"

\* n is a valid identifier in normalized form, by the conditions of C2.
IsValidIdentifier(n) ==
    /\ LongEnough(n) /\ LettersFirst(n) /\ DigitsNext(n)
    /\ LengthFitsCountry(n) /\ ChecksumIsOne(n)

\* The places <<i, j>> of text where a valid identifier of a known country
\* stands in normalized form, whitespace or an end of the text on each side.
IdentifiersIn(text) ==
    {p \in {<<i, i + IBAN_LENGTHS[text[i] \o text[i + 1]] - 1>> :
                i \in {i \in 1..(Len(text) - 1) :
                           (text[i] \o text[i + 1]) \in DOMAIN IBAN_LENGTHS}} :
        /\ p[2] <= Len(text)
        /\ \A k \in p[1]..p[2] : text[k] \in AZ09
        /\ p[1] = 1 \/ text[p[1] - 1] \in WhiteSpace
        /\ p[2] = Len(text) \/ text[p[2] + 1] \in WhiteSpace
        /\ IsValidIdentifier(SubSeq(text, p[1], p[2]))}

\* Two letters followed by two digits occur somewhere in s.
HasCandidateStart(s) ==
    \E k \in 1..(Len(s) - 3) :
        /\ s[k] \in AZ /\ s[k + 1] \in AZ
        /\ s[k + 2] \in Digit09 /\ s[k + 3] \in Digit09

\* C10 as stated: from text made of any other text, a valid identifier of a
\* known country set off by whitespace, and any other text,
\* extractIBANFromText returns exactly that identifier.
C10_IdentifierAmidAnyText ==
    ReturnedFrom("extractIBANFromText") =>
        \A p \in IdentifiersIn(arg.str) :
            outcome.value = String(SubSeq(arg.str, p[1], p[2]))

\* C10, amended: the same, provided the text before the identifier, with its
\* whitespace removed and uppercased, holds no two letters followed by two
\* digits.
C10_IdentifierAfterPlainText ==
    ReturnedFrom("extractIBANFromText") =>
        \A p \in IdentifiersIn(arg.str) :
            ~HasCandidateStart(cleanedTextOf(SubSeq(arg.str, 1, p[1] - 1)))
                => outcome.value = String(SubSeq(arg.str, p[1], p[2]))

\* C10 happens: an identifier with letters before it and text after it, set
\* off by whitespace on both sides, was extracted.
C10_Witness ==
    /\ ReturnedFrom("extractIBANFromText")
    /\ \E p \in IdentifiersIn(arg.str) :
           /\ p[1] > 2 /\ arg.str[1] \in Range(LOWER)
           /\ p[2] + 1 < Len(arg.str)
           /\ ~HasCandidateStart(cleanedTextOf(SubSeq(arg.str, 1, p[1] - 1)))
           /\ outcome.value = String(SubSeq(arg.str, p[1], p[2]))

\* s and t have the same length and differ at exactly the positions in P.
DiffersExactlyAt(s, t, P) ==
    /\ Len(s) = Len(t)
    /\ {k \in 1..Len(s) : s[k] # t[k]} = P

\* C11 as stated: from text containing "GB82WEST123456987654O2", the valid
\* GB82WEST12345698765432 with its last but one character read as O,
\* extractIBANFromText returns "GB82WEST12345698765432".
C11_ThreeReadAsORecovered ==
    (/\ ReturnedFrom("extractIBANFromText")
     /\ IsSubstring(Chars("GB82WEST123456987654O2"), arg.str))
        => outcome.value = String(Chars("GB82WEST12345698765432"))

\* C11, amended: from text containing "GB82WE5T12345698765432", the valid
\* GB82WEST12345698765432 with its S read as 5, after text that holds no two
\* letters followed by two digits, extractIBANFromText returns
\* "GB82WEST12345698765432", which differs from the reading at that one
\* position; from the text "GB82WEST123456987654O2" alone it returns null.
C11_SReadAsFiveRecovered ==
    ReturnedFrom("extractIBANFromText") =>
        /\ \A i \in 0..(Len(arg.str) - 22) :
               (/\ SubSeq(arg.str, i + 1, i + 22) = Chars("GB82WE5T12345698765432")
                /\ ~HasCandidateStart(cleanedTextOf(SubSeq(arg.str, 1, i))))
                   => /\ outcome.value = String(Chars("GB82WEST12345698765432"))
                      /\ DiffersExactlyAt(outcome.value.str,
                                          SubSeq(arg.str, i + 1, i + 22), {7})
        /\ cleanedTextOf(arg.str) = Chars("GB82WEST123456987654O2")
               => outcome.value = null

\* C11 happens: the reading with 5 for S, with text before it and after it,
\* gave the valid identifier.
C11_Witness ==
    /\ ReturnedFrom("extractIBANFromText")
    /\ \E i \in 1..(Len(arg.str) - 23) :
           /\ SubSeq(arg.str, i + 1, i + 22) = Chars("GB82WE5T12345698765432")
           /\ ~HasCandidateStart(cleanedTextOf(SubSeq(arg.str, 1, i)))
    /\ outcome.value = String(Chars("GB82WEST12345698765432"))

\* The alternates of character c: the other members of the first confusion
\* group that holds it, in the order the group lists them.
AlternatesOf(c) ==
    LET hits == {g \in 1..Len(confusions) : c \in Range(confusions[g])}
    IN  IF hits = {} THEN <<>>
        ELSE SelectSeq(confusions[CHOOSE g \in hits : \A h \in hits : g <= h],
                       LAMBDA a : a # c)

\* The single-position substitutions of iban from position i (1-based) on: by
\* increasing position and, at one position, in the order of the alternates.
RECURSIVE SubstitutionsFrom(_, _)
SubstitutionsFrom(iban, i) ==
    IF i > Len(iban) THEN <<>>
    ELSE [k \in 1..Len(AlternatesOf(iban[i])) |->
             ReplacedAt(iban, i, AlternatesOf(iban[i])[k])]
         \o SubstitutionsFrom(iban, i + 1)

\* The single-position substitutions of iban that leave its first two
\* characters alone, in that order.
SingleSubstitutions(iban) == SubstitutionsFrom(iban, 3)

\* C12: generateIBANVariations returns at most 15 candidates, the unmodified
\* one (which comes first) included, however many single-position
\* substitutions the candidate has.
C12_AtMostFifteenVariations ==
    ReturnedFrom("generateIBANVariations") =>
        /\ Len(outcome.value) <= 15
        /\ Len(outcome.value) >= 1
        /\ outcome.value[1] = arg.str

\* C12 happens: a candidate with more than 14 single-position substitutions
\* gave 15 variations.
C12_Witness ==
    /\ ReturnedFrom("generateIBANVariations")
    /\ Len(SingleSubstitutions(arg.str)) > 14
    /\ Len(outcome.value) = 15

\* What blanket correction makes of one character of uppercased text.
CorrectionOf(c) ==
    CASE c \in {"O", "Q", "D"} -> "0"
      [] c \in {"I", "L", "|"} -> "1"
      [] c = "S" -> "5"
      [] c = "Z" -> "2"
      [] c = "B" -> "8"
      [] c = "G" -> "6"
      [] c = "T" -> "7"
      [] OTHER -> c

\* The blanket-corrected version of uppercased text s.
BlanketCorrected(s) == [i \in 1..Len(s) |-> CorrectionOf(s[i])]

\* The two versions of a text that are searched, in the order of the search.
VersionsOf(text) ==
    <<cleanedTextOf(text), BlanketCorrected(cleanedTextOf(text))>>

\* The candidates of one match, in the order C14 gives: for a known country
\* the match cut to the country's length, then its first 14 single-position
\* substitutions; for an unknown country the prefixes of the lengths 18 to
\* min(31, length of the match), shortest first.
CandidatesOfMatch(m) ==
    IF KnownCountry(m)
    THEN LET exact == SubSeq(m, 1, Min(Len(m), IBAN_LENGTHS[m[1] \o m[2]]))
             subs == SingleSubstitutions(exact)
         IN  <<exact>> \o SubSeq(subs, 1, Min(14, Len(subs)))
    ELSE [k \in 1..(Min(31, Len(m)) - 17) |-> SubSeq(m, 1, 17 + k)]

\* The candidates of the matches from the k-th on, match after match.
RECURSIVE CandidatesFrom(_, _)
CandidatesFrom(matches, k) ==
    IF k > Len(matches) THEN <<>>
    ELSE CandidatesOfMatch(matches[k]) \o CandidatesFrom(matches, k + 1)

\* The candidates of one version of a text, matches by increasing start.
CandidatesOf(version) == CandidatesFrom(matchAll(version, 1), 1)

\* The places of the valid identifiers in a list of candidates.
ValidPlaces(candidates) ==
    {k \in 1..Len(candidates) : IsValidIdentifier(Normalized(candidates[k]))}

\* The first valid identifier of a list of candidates, null when it has none.
FirstValid(candidates) ==
    IF ValidPlaces(candidates) = {} THEN null
    ELSE String(candidates[CHOOSE k \in ValidPlaces(candidates) :
                              \A j \in ValidPlaces(candidates) : k <= j])

\* C13: on a text, extractIBANFromText returns, and returns null, whenever no
\* candidate of either version validates; so it does for every text neither
\* version of which holds two letters followed by two digits, for
\* "randomtext" and for the empty string.
C13_NullWhenNothingValidates ==
    (call = "extractIBANFromText" /\ arg.type = "string") =>
        /\ outcome.kind = "return"
        /\ (\A v \in 1..2 : ValidPlaces(CandidatesOf(VersionsOf(arg.str)[v])) = {})
               => outcome.value = null
        /\ (\A v \in 1..2 : ~HasCandidateStart(VersionsOf(arg.str)[v]))
               => outcome.value = null
        /\ arg.str \in {Chars("randomtext"), <<>>} => outcome.value = null

\* C13 happens: a text with candidates, none of them valid, gave null.
C13_Witness ==
    /\ ReturnedFrom("extractIBANFromText")
    /\ Len(CandidatesOf(VersionsOf(arg.str)[1])) > 1
    /\ \A v \in 1..2 : ValidPlaces(CandidatesOf(VersionsOf(arg.str)[v])) = {}
    /\ outcome.value = null

\* C14: the string returned is the first valid candidate of the original
\* version in this order: matches by increasing start; within a match the
\* exact-length candidate, then the single-position substitutions by
\* increasing position and, at one position, in the order of the group's
\* alternates. The corrected version is searched in the same order when the
\* original version has no valid candidate.
C14_FirstValidInOrder ==
    ReturnedFrom("extractIBANFromText") =>
        outcome.value =
            IF FirstValid(CandidatesOf(VersionsOf(arg.str)[1])) # null
            THEN FirstValid(CandidatesOf(VersionsOf(arg.str)[1]))
            ELSE FirstValid(CandidatesOf(VersionsOf(arg.str)[2]))

\* C14 happens: one version had several different valid candidates, and the
\* first of them was returned.
C14_Witness ==
    /\ ReturnedFrom("extractIBANFromText")
    /\ \E v \in 1..2 :
           LET candidates == CandidatesOf(VersionsOf(arg.str)[v])
           IN  /\ \E j, k \in ValidPlaces(candidates) :
                      candidates[j] # candidates[k]
               /\ outcome.value = FirstValid(candidates)

\* Characters a and b are the same or belong to one group of look-alikes.
SameGlyph(a, b) ==
    a = b \/ \E g \in 1..Len(GLYPH_GROUPS) : {a, b} \subseteq Range(GLYPH_GROUPS[g])

\* C15: a string that extractIBANFromText returns has the length of some
\* contiguous substring of the text with its whitespace removed and uppercased,
\* and each of its characters is the character of that substring at the same
\* place or a look-alike of it in {0,O,Q,D}, {1,I,L,|}, {5,S}, {8,B}, {6,G},
\* {7,T}, {2,Z}.
C15_OnlyLookAlikesSubstituted ==
    (ReturnedFrom("extractIBANFromText") /\ outcome.value # null) =>
        \E i \in 0..(Len(cleanedTextOf(arg.str)) - Len(outcome.value.str)) :
            \A k \in 1..Len(outcome.value.str) :
                SameGlyph(outcome.value.str[k], cleanedTextOf(arg.str)[i + k])

\* C15 happens: a string was returned that stands nowhere in the text.
C15_Witness ==
    /\ ReturnedFrom("extractIBANFromText")
    /\ outcome.value # null
    /\ ~IsSubstring(outcome.value.str, cleanedTextOf(arg.str))

\* x is in normalized form.
IsNormalized(x) == \A k \in 1..Len(x) : x[k] \in AZ09

\* The valid identifiers of known countries that x is a reading of with one
\* character after the check digits taken for a look-alike.
OriginalsOf(x) ==
    {y \in UNION {{ReplacedAt(x, i, c) : c \in LookAlikes(x[i])} :
                      i \in 5..Len(x)} :
        IsNormalized(y) /\ KnownCountry(y) /\ IsValidIdentifier(y)}

\* C16 as stated: when the text is a valid identifier of a known country with
\* exactly one character at index 4 or later replaced by a look-alike,
\* extractIBANFromText returns the original identifier, wherever the misread
\* character stands.
C16_AnyLookAlikeMisreadRecovered ==
    ReturnedFrom("extractIBANFromText") =>
        \A y \in OriginalsOf(arg.str) : outcome.value = String(y)

\* C16, amended: for such a text the original identifier is returned (a) when
\* the text is alphanumeric and not valid itself, and the original is among
\* its first 14 single-position substitutions and the first of them that is
\* valid, and (b) when no candidate of the uncorrected text is valid and
\* blanket correction of the whole text gives the original.
C16_ReachableLookAlikeMisreadRecovered ==
    ReturnedFrom("extractIBANFromText") =>
        \A y \in OriginalsOf(arg.str) :
            /\ (/\ IsNormalized(arg.str)
                /\ ~IsValidIdentifier(arg.str)
                /\ \E k \in 1..Min(14, Len(SingleSubstitutions(arg.str))) :
                       /\ SingleSubstitutions(arg.str)[k] = y
                       /\ \A j \in 1..(k - 1) :
                              ~IsValidIdentifier(
                                   Normalized(SingleSubstitutions(arg.str)[j])))
                   => outcome.value = String(y)
            /\ (/\ cleanedTextOf(arg.str) = arg.str
                /\ ValidPlaces(CandidatesOf(arg.str)) = {}
                /\ BlanketCorrected(arg.str) = y)
                   => outcome.value = String(y)

\* C16 happens: the original was returned for a reading whose misread
\* character comes after ten other substitutions.
C16_Witness ==
    /\ ReturnedFrom("extractIBANFromText")
    /\ IsNormalized(arg.str)
    /\ \E y \in OriginalsOf(arg.str) :
           /\ \E k \in 11..Min(14, Len(SingleSubstitutions(arg.str))) :
                  SingleSubstitutions(arg.str)[k] = y
           /\ outcome.value = String(y)

\* C17: every match of the candidate scan, in either version of the text, is
\* two letters, two digits and 4 to 30 alphanumerics, so 8 to 34 characters
\* long; a longer run is split into several matches.
C17_MatchesOfLength8To34 ==
    ReturnedFrom("extractIBANFromText") =>
        \A v \in 1..2 :
            \A k \in 1..Len(matchAll(VersionsOf(arg.str)[v], 1)) :
                /\ Len(matchAll(VersionsOf(arg.str)[v], 1)[k]) >= 8
                /\ Len(matchAll(VersionsOf(arg.str)[v], 1)[k]) <= 34

\* The lengths from 18 to min(31, length of m) at which the prefix of match m
\* is a valid identifier.
ValidPrefixLengths(m) ==
    {n \in 18..Min(31, Len(m)) : IsValidIdentifier(SubSeq(m, 1, n))}

\* The matches of both versions of a text.
AllMatchesOf(text) ==
    Range(matchAll(VersionsOf(text)[1], 1))
        \cup Range(matchAll(VersionsOf(text)[2], 1))

\* C18: for a match whose country code the table does not hold, the prefixes
\* of the lengths 18 to min(31, length of the match) are tried, shortest
\* first, and the first valid one is returned; no character of such a match
\* is substituted, and a match shorter than 18 gives nothing.
C18_UnknownCountryShortestPrefix ==
    ReturnedFrom("extractIBANFromText") =>
        /\ LET matches == matchAll(VersionsOf(arg.str)[1], 1)
           IN  (/\ matches # <<>>
                /\ ~KnownCountry(matches[1])
                /\ ValidPrefixLengths(matches[1]) # {})
                   => \E n \in ValidPrefixLengths(matches[1]) :
                          /\ \A o \in ValidPrefixLengths(matches[1]) : n <= o
                          /\ outcome.value = String(SubSeq(matches[1], 1, n))
        /\ (outcome.value # null /\ ~KnownCountry(outcome.value.str))
               => \E m \in AllMatchesOf(arg.str) :
                      /\ Len(outcome.value.str) \in ValidPrefixLengths(m)
                      /\ \A o \in ValidPrefixLengths(m) :
                             Len(outcome.value.str) <= o
                      /\ outcome.value.str = SubSeq(m, 1, Len(outcome.value.str))
        /\ (\A m \in AllMatchesOf(arg.str) :
                ~KnownCountry(m) /\ ValidPrefixLengths(m) = {})
               => outcome.value = null

\* C18 happens: a match of an unknown country has valid prefixes of two
\* lengths, and the shorter one was returned.
C18_Witness ==
    /\ ReturnedFrom("extractIBANFromText")
    /\ matchAll(VersionsOf(arg.str)[1], 1) # <<>>
    /\ LET m == matchAll(VersionsOf(arg.str)[1], 1)[1]
       IN  /\ ~KnownCountry(m)
           /\ Cardinality(ValidPrefixLengths(m)) >= 2
           /\ outcome.value.type = "string"
           /\ \A o \in ValidPrefixLengths(m) : Len(outcome.value.str) <= o

\* The remainder after the characters of s are consumed one per step: a digit
\* d by r := (r * 10 + d) mod 97, a letter of value v by
\* r := (r * 100 + v) mod 97.
RECURSIVE CharacterwiseMod97(_)
CharacterwiseMod97(s) ==
    IF s = <<>> THEN 0
    ELSE LET r == CharacterwiseMod97(SubSeq(s, 1, Len(s) - 1))
             c == s[Len(s)]
         IN  IF c \in Digit09 THEN (r * 10 + ValueOf(c)) % 97
             ELSE (r * 100 + ValueOf(c)) % 97

\* validateIBAN returned after computing the checksum of its argument.
ChecksumComputed ==
    /\ ReturnedFrom("validateIBAN")
    /\ outcome.value.error \in {"ChecksumFailed", "undefined"}

\* C19: the remainder mod97 computes one decimal digit at a time over the
\* numeral of the rearranged identifier is the remainder got by consuming each
\* letter's two-digit value in one step and each digit in one step; every
\* running remainder is in 0..96 and no value the loop reduces exceeds 969.
C19_StreamingRemainder ==
    ChecksumComputed =>
        LET rearranged == rearrange(cleanIBAN(arg.str))
            numericString == toNumericString(rearranged)
        IN  /\ mod97(numericString) = CharacterwiseMod97(rearranged)
            /\ outcome.value.isValid <=> CharacterwiseMod97(rearranged) = 1
            /\ \A k \in 1..Len(numericString) :
                   /\ mod97(SubSeq(numericString, 1, k)) \in 0..96
                   /\ mod97Intermediates(numericString)[k] <= 969
                   /\ mod97Intermediates(numericString)[k] >= 0

\* C19 happens: the checksum was computed for an identifier with letters in
\* its account body, and the loop reduced a value above 959.
C19_Witness ==
    /\ ChecksumComputed
    /\ \E k \in 5..Len(cleanIBAN(arg.str)) : cleanIBAN(arg.str)[k] \in AZ
    /\ \E k \in 1..Len(toNumericString(rearrange(cleanIBAN(arg.str)))) :
           mod97Intermediates(toNumericString(rearrange(cleanIBAN(arg.str))))[k]
               > 959

\* C20: blanket correction and variation generation go by the same groups:
\* every character of the text that blanket correction rewrites belongs to a
\* group of generateIBANVariations that holds the digit it becomes, and every
\* character of the text that is a member of such a group and not a digit is
\* rewritten to the digit of that group.
C20_SameGroupsInBothSteps ==
    ReturnedFrom("extractIBANFromText") =>
        \A c \in Range(cleanedTextOf(arg.str)) :
            /\ applyCorrections(<<c>>, 1) # <<c>>
                   => \E g \in 1..Len(confusions) :
                          /\ c \in Range(confusions[g])
                          /\ applyCorrections(<<c>>, 1)[1] \in Range(confusions[g])
            /\ (c \notin Digit09 /\ groupIncluding(c) # <<>>)
                   => applyCorrections(<<c>>, 1) = <<groupIncluding(c)[1]>>

\* C21: every candidate of the original cleaned text is examined before any
\* of the blanket-corrected text: when a candidate of the original text is
\* valid the first such is returned, and a string got from the corrected text
\* is returned only when no candidate of the original text is valid.
C21_OriginalTextFirst ==
    ReturnedFrom("extractIBANFromText") =>
        LET fromOriginal == CandidatesOf(cleanedTextOf(arg.str))
            fromCorrected ==
                CandidatesOf(applyCorrections(cleanedTextOf(arg.str), 1))
        IN  /\ ValidPlaces(fromOriginal) # {}
                   => outcome.value = FirstValid(fromOriginal)
            /\ (outcome.value # null /\ ValidPlaces(fromOriginal) = {})
                   => outcome.value = FirstValid(fromCorrected)

\* C21 happens: both versions of the text have valid candidates, the first
\* valid one of the corrected text is another identifier, and the one of the
\* original text was returned.
C21_Witness ==
    /\ ReturnedFrom("extractIBANFromText")
    /\ LET fromOriginal == CandidatesOf(VersionsOf(arg.str)[1])
           fromCorrected == CandidatesOf(VersionsOf(arg.str)[2])
       IN  /\ ValidPlaces(fromOriginal) # {}
           /\ ValidPlaces(fromCorrected) # {}
           /\ FirstValid(fromCorrected) # FirstValid(fromOriginal)
           /\ outcome.value = FirstValid(fromOriginal)

\* C22: every variation generateIBANVariations returns after the unmodified
\* candidate has the candidate's length and differs from it at exactly one
\* position; the position has index 2 or more, so the country code stays, and
\* the two characters there are look-alikes of one group.
C22_VariationChangesOnePosition ==
    ReturnedFrom("generateIBANVariations") =>
        \A k \in 2..Len(outcome.value) :
            /\ Len(outcome.value[k]) = Len(arg.str)
            /\ \E p \in 3..Len(arg.str) :
                   /\ DiffersExactlyAt(outcome.value[k], arg.str, {p})
                   /\ SameGlyph(outcome.value[k][p], arg.str[p])
            /\ SubSeq(outcome.value[k], 1, 2) = SubSeq(arg.str, 1, 2)

\* C22 happens: variations were generated for a candidate whose country code
\* holds a character of a confusion group.
C22_Witness ==
    /\ ReturnedFrom("generateIBANVariations")
    /\ Len(outcome.value) > 2
    /\ \E p \in 1..2 : AlternatesOf(arg.str[p]) # <<>>

\* The text with whitespace (a space, a tab, a line break, in turn) put after
\* each of its characters.
Spread(text) ==
    [k \in 1..(2 * Len(text)) |->
        IF k % 2 = 1 THEN text[(k + 1) \div 2]
        ELSE <<" ", "\t", "\n">>[((k \div 2) % 3) + 1]]

\* The text without its spaces, tabs and line breaks.
Squeezed(text) == SelectSeq(text, LAMBDA c : c \notin {" ", "\t", "\n", "\r"})

\* The text with the case of its letters a-z and A-Z changed.
CaseSwapped(text) ==
    [k \in 1..Len(text) |->
        IF text[k] \in Range(UPPER) THEN LOWER[IndexIn(UPPER, text[k])]
        ELSE IF text[k] \in Range(LOWER) THEN UPPER[IndexIn(LOWER, text[k])]
        ELSE text[k]]

CORRECTED_AWAY == {"O", "Q", "D", "I", "L", "|", "S", "Z", "B", "G", "T"}

\* C29: the blanket-corrected text holds none of O, Q, D, I, L, |, S, Z, B, G,
\* T, so no match found in it has one of them in its country code, and an
\* identifier whose country code holds one of them is returned only as the
\* first valid candidate of the original text.
C29_CorrectedTextHasNoConfusable ==
    ReturnedFrom("extractIBANFromText") =>
        LET correctedText == applyCorrections(cleanedTextOf(arg.str), 1)
            potentialMatches == matchAll(correctedText, 1)
        IN  /\ Range(correctedText) \cap CORRECTED_AWAY = {}
            /\ \A k \in 1..Len(potentialMatches) :
                   {potentialMatches[k][1], potentialMatches[k][2]}
                       \cap CORRECTED_AWAY = {}
            /\ (/\ outcome.value # null
                /\ {outcome.value.str[1], outcome.value.str[2]}
                       \cap CORRECTED_AWAY # {})
                   => outcome.value = FirstValid(CandidatesOf(cleanedTextOf(arg.str)))

\* C29 happens: the text held several of the rewritten characters, and an
\* identifier with one of them in its country code was returned.
C29_Witness ==
    /\ ReturnedFrom("extractIBANFromText")
    /\ outcome.value # null
    /\ {outcome.value.str[1], outcome.value.str[2]} \cap CORRECTED_AWAY # {}
    /\ Cardinality({k \in 1..Len(arg.str) : arg.str[k] \in CORRECTED_AWAY}) > 3

\* C30: a string that extractIBANFromText returns is in normalized form: only
\* A-Z and 0-9, so cleanIBAN leaves it as it is and it holds no '|'; when its
\* country code is in the table its length is the table's.
C30_ResultIsNormalized ==
    (ReturnedFrom("extractIBANFromText") /\ outcome.value # null) =>
        /\ \A k \in 1..Len(outcome.value.str) : outcome.value.str[k] \in AZ09
        /\ cleanIBAN(outcome.value.str) = outcome.value.str
        /\ "|" \notin Range(outcome.value.str)
        /\ KnownCountry(outcome.value.str)
               => Len(outcome.value.str)
                      = IBAN_LENGTHS[outcome.value.str[1] \o outcome.value.str[2]]

\* C30 happens: a variation was returned after a variation with '|' in it
\* had been examined.
C30_Witness ==
    /\ ReturnedFrom("extractIBANFromText")
    /\ LET candidates == CandidatesOf(VersionsOf(arg.str)[1])
       IN  \E j \in ValidPlaces(candidates) :
               /\ outcome.value = String(candidates[j])
               /\ \A i \in ValidPlaces(candidates) : j <= i
               /\ \E k \in 1..(j - 1) : "|" \in Range(candidates[k])

\* ------------------------------------------------------------------------
\* The record stores: what they hold and who calls them.
\* ------------------------------------------------------------------------

\* How many identifiers one behaviour generates, over both stores.
MaxRecords == 2

\* How far the time of day advances in one behaviour.
MaxClock == 1

\* The identifiers crypto.randomUUID() and gen_random_uuid() can give, and
\* that a caller can name.
IDS == 1..MaxRecords

\* What a result screen hands to saveIBANRecord: the identifier it shows and
\* the trimmed owner name. (isValid, source, errorMessage and countryCode
\* travel with them and are never read by a store.)
RECORDS ==
    { [iban |-> Chars("NO9386011117947"), ownerName |-> Chars("Ali")],
      [iban |-> Chars("BE68539007547034"), ownerName |-> Chars("Sara")] }

\* What the user types in the search box of the saved-records list.
QUERIES == { Chars("no93"), Chars("SARA"), Chars(" ") }

\* String.prototype.toLowerCase, on one character and on a string.
LOWER_OF == [c \in Range(UPPER) |-> LOWER[IndexIn(UPPER, c)]]

lowerOf(c) == IF c \in DOMAIN LOWER_OF THEN LOWER_OF[c] ELSE c

toLowerCase(s) == [i \in 1..Len(s) |-> lowerOf(s[i])]

\* String.prototype.includes.
includes(s, searchString) ==
    \E i \in 0..(Len(s) - Len(searchString)) :
        SubSeq(s, i + 1, i + Len(searchString)) = searchString

\* Date.now() and now(): the time of day never runs backwards, and two
\* readings can be equal.
Readings == { t \in clock..(clock + 1) : t <= MaxClock }

\* crypto.randomUUID() and gen_random_uuid(): an identifier never given out.
randomUUID == issued + 1

\* ---- src/lib/storage.ts: the list kept in the browser's localStorage ----

STORAGE_KEY == "iban_records"

\* JSON.stringify of a list of records, and JSON.parse of that text: the
\* text is not a list, and parsing it gives the list back.
JSON_stringify(records) == [json |-> records]

JSON_parse(data) == data.json

\* localStorage.setItem(key, value), as the storage after it.
setItem(key, value) == [k \in DOMAIN localStorage \cup {key} |->
                           IF k = key THEN value ELSE localStorage[k]]

storage_getAllRecords ==
    IF STORAGE_KEY \in DOMAIN localStorage
    THEN JSON_parse(localStorage[STORAGE_KEY])
    ELSE <<>>

\* { ...record, id, timestamp }. savedAs is not a field of IBANRecord: it
\* remembers which save made the record, whatever is later written over it.
newRecord(record, id, timestamp) ==
    [id |-> id, iban |-> record.iban, ownerName |-> record.ownerName,
     timestamp |-> timestamp, savedAs |-> id]

\* records.unshift(newRecord), then setItem.
storage_saveIBANRecord(record, id, timestamp) ==
    setItem(STORAGE_KEY,
            JSON_stringify(<<newRecord(record, id, timestamp)>>
                           \o storage_getAllRecords))

withoutId_others(records, id) == SelectSeq(records, LAMBDA r : r.id = id)

\* records.filter(r => r.id !== id)
withoutId(records, id) == SelectSeq(records, LAMBDA r : r.id # id)

storage_deleteRecord(id) ==
    setItem(STORAGE_KEY, JSON_stringify(withoutId(storage_getAllRecords, id)))

\* records.findIndex(r => r.id === id), counting from 1; 0 for -1.
findIndex(records, id) ==
    IF \E i \in 1..Len(records) : records[i].id = id
    THEN CHOOSE i \in 1..Len(records) :
            /\ records[i].id = id
            /\ \A j \in 1..(i - 1) : records[j].id # id
    ELSE 0

\* { ...record, ...updates }
spread(record, updates) ==
    [k \in DOMAIN record |->
        IF k \in DOMAIN updates THEN updates[k] ELSE record[k]]

storage_updateRecord(id, updates) ==
    LET records == storage_getAllRecords
        index == findIndex(records, id)
    IN  IF index # 0
        THEN setItem(STORAGE_KEY, JSON_stringify(
                 [records EXCEPT ![index] = spread(records[index], updates)]))
        ELSE localStorage

storage_searchRecords(query) ==
    LET lowercaseQuery == toLowerCase(query)
    IN  SelectSeq(storage_getAllRecords, LAMBDA r :
            \/ includes(toLowerCase(r.iban), lowercaseQuery)
            \/ includes(toLowerCase(r.ownerName), lowercaseQuery))

\* The updates a caller can write as a Partial<IBANRecord>.
UPDATES == { [ownerName |-> Chars("Omar")], [id |-> 1] }

\* How many of the records had that id when the call was made.
holding(records, id) ==
    Cardinality({i \in 1..Len(records) : records[i].id = id})

\* A call of saveIBANRecord of storage.ts.
CallStorageSave ==
    /\ issued < MaxRecords
    /\ \E record \in RECORDS, timestamp \in Readings :
        /\ localStorage' =
               storage_saveIBANRecord(record, randomUUID, timestamp)
        /\ clock' = timestamp
        /\ last' = [op |-> "storage.saveIBANRecord", user |-> "none",
                    id |-> randomUUID, found |-> 0, error |-> FALSE,
                    returned |-> <<newRecord(record, randomUUID, timestamp)>>]
    /\ issued' = issued + 1
    /\ UNCHANGED <<iban_records, screen>>
    /\ UNCHANGED <<engineVars, scanner>>

\* handleDelete of the saved-records list: deleteRecord(id), then the list
\* shown is read again.
HandleDelete ==
    /\ screen.currentScreen = "records"
    /\ \E id \in IDS :
        /\ localStorage' = storage_deleteRecord(id)
        /\ last' = [op |-> "storage.deleteRecord", user |-> "none",
                    id |-> id, found |-> holding(storage_getAllRecords, id),
                    error |-> FALSE, returned |-> <<>>]
    /\ screen' = [screen EXCEPT !.records =
                     JSON_parse(localStorage'[STORAGE_KEY])]
    /\ UNCHANGED <<iban_records, issued, clock>>
    /\ UNCHANGED <<engineVars, scanner>>

\* A call of updateRecord of storage.ts.
CallStorageUpdate ==
    /\ \E id \in IDS, updates \in UPDATES :
        /\ localStorage' = storage_updateRecord(id, updates)
        /\ last' = [op |-> "storage.updateRecord", user |-> "none",
                    id |-> id, found |-> holding(storage_getAllRecords, id),
                    error |-> FALSE, returned |-> <<>>]
    /\ UNCHANGED <<iban_records, issued, clock, screen>>
    /\ UNCHANGED <<engineVars, scanner>>

\* handleSearch of the saved-records list.
HandleSearch ==
    /\ screen.currentScreen = "records"
    /\ \E query \in QUERIES :
        screen' = [screen EXCEPT
                      !.searchQuery = query,
                      !.records = IF trim(query) # <<>>
                                  THEN storage_searchRecords(query)
                                  ELSE storage_getAllRecords]
    /\ UNCHANGED <<iban_records, localStorage, issued, clock, last>>
    /\ UNCHANGED <<engineVars, scanner>>

EngineAtRest ==
    /\ arg = undefined
    /\ call = "none"
    /\ outcome = NoOutcome
    /\ origin = "external"

\* The saved-records list is open over an empty store.
LocalInit ==
    /\ EngineAtRest
    /\ iban_records = {}
    /\ localStorage = <<>>
    /\ issued = 0
    /\ clock = 0
    /\ screen = [HomeScreen EXCEPT !.currentScreen = "records"]
    /\ last = NoStoreCall
    /\ scanner = ScannerAtStart

LocalNext ==
    \/ CallStorageSave
    \/ HandleDelete
    \/ CallStorageUpdate

\* The local record store under the calls its exports allow.
LocalSpec == LocalInit /\ [][LocalNext]_vars

\* ---- supabase/migrations: public.iban_records, its row level security,
\* ---- and src/lib/dbStorage.ts, which reaches the table through it

\* auth.users: the people who can sign in.
USERS == {"u1", "u2"}

\* What supabase.auth.getUser() gives, and auth.uid() with it: a user, or
\* nobody. No row has nobody as its user_id (user_id is NOT NULL), and
\* auth.uid() = user_id is not true when auth.uid() is NULL.
SESSIONS == USERS \cup {"none"}

CanView_anyone(uid, row) == TRUE

\* "Users can view own IBAN records": USING (auth.uid() = user_id)
CanView(uid, row) == uid = row.user_id

\* "Users can insert own IBAN records": WITH CHECK (auth.uid() = user_id)
CanInsert(uid, row) == uid = row.user_id

\* "Users can update own IBAN records": USING (auth.uid() = user_id). With no
\* WITH CHECK of its own, the same expression is applied to the updated row.
CanUpdate(uid, row) == uid = row.user_id

\* "Users can delete own IBAN records": USING (auth.uid() = user_id)
CanDelete(uid, row) == uid = row.user_id

\* A row as an INSERT makes it: id and created_at from their defaults.
\* (is_valid, source, error_message, country_code and updated_at are left
\* out: no policy and no filter of dbStorage.ts reads them.)
newRow(user_id, record, id, created_at) ==
    [id |-> id, user_id |-> user_id, iban |-> record.iban,
     owner_name |-> IF record.ownerName = <<>> THEN null
                    ELSE record.ownerName,
     created_at |-> created_at]

\* SELECT * FROM iban_records, as uid.
selectRows(uid) == {row \in iban_records : CanView(uid, row)}

\* INSERT INTO iban_records, as uid: the table after it, or the table as it
\* was when the new row violates the policy.
insertRow(uid, row) ==
    IF CanInsert(uid, row)
    THEN [error |-> FALSE, table |-> iban_records \cup {row}]
    ELSE [error |-> TRUE, table |-> iban_records]

\* DELETE FROM iban_records WHERE id = ..., as uid: only rows the DELETE
\* policy passes, among those the SELECT policy lets the WHERE clause see,
\* are removed; none is no error.
deleteRows(uid, id) ==
    iban_records \ {row \in selectRows(uid) : row.id = id /\ CanDelete(uid, row)}

\* UPDATE iban_records SET ... WHERE id = ..., as uid: rows the policy passes
\* are replaced; an updated row the policy does not pass fails the statement.
updateRows(uid, id, changes) ==
    LET targets == {row \in selectRows(uid) :
                        row.id = id /\ CanUpdate(uid, row)}
        updated == {spread(row, changes) : row \in targets}
    IN  IF \A row \in updated : CanUpdate(uid, row)
        THEN [error |-> FALSE,
              table |-> (iban_records \ targets) \cup updated]
        ELSE [error |-> TRUE, table |-> iban_records]

\* .order('created_at', { ascending: false }): the rows in a list, later
\* ones first; rows made at the same time come in either order.
orderedByCreatedAtDesc(rows) ==
    { list \in [1..Cardinality(rows) -> rows] :
        /\ \A i, j \in DOMAIN list : i # j => list[i] # list[j]
        /\ \A i, j \in DOMAIN list :
               i < j => list[i].created_at >= list[j].created_at }

\* column.ilike.%query%
ilike(column, lowercaseQuery) ==
    /\ column # null
    /\ LET text == toLowerCase(column)
           pattern == toLowerCase(lowercaseQuery)
       IN  includes(text, pattern)

\* What the settled call looked like to its caller.
DbCall(op, user, id, error, returned) ==
    [op |-> op, user |-> user, id |-> id, found |-> 0, error |-> error,
     returned |-> returned]

\* saveIBANRecord of dbStorage.ts, called in the session of `user`: what it
\* does to the table and what it answers.
dbStorage_saveIBANRecord(user, record, created_at) ==
    IF user = "none"
    THEN /\ last' = DbCall("dbStorage.saveIBANRecord", user, 0, TRUE, <<>>)
         /\ UNCHANGED <<iban_records, issued, clock>>
    ELSE LET row == newRow(user, record, randomUUID, created_at)
             done == insertRow(user, row)
         IN  /\ iban_records' = done.table
             /\ issued' = issued + 1
             /\ clock' = created_at
             /\ last' = DbCall("dbStorage.saveIBANRecord", user, row.id,
                               done.error,
                               IF done.error THEN <<>> ELSE <<row>>)

\* A call of saveIBANRecord of dbStorage.ts.
DbSave ==
    /\ issued < MaxRecords
    /\ \E user \in SESSIONS, record \in RECORDS, created_at \in Readings :
        dbStorage_saveIBANRecord(user, record, created_at)
    /\ UNCHANGED <<localStorage, screen>>
    /\ UNCHANGED <<engineVars, scanner>>

\* getAllRecords of dbStorage.ts.
DbGetAll ==
    /\ \E user \in SESSIONS :
        \E data \in orderedByCreatedAtDesc(
                {row \in selectRows(user) : row.user_id = user}) :
            last' = DbCall("dbStorage.getAllRecords", user, 0, FALSE, data)
    /\ UNCHANGED <<iban_records, localStorage, issued, clock, screen>>
    /\ UNCHANGED <<engineVars, scanner>>

\* searchRecords of dbStorage.ts.
DbSearch ==
    /\ \E user \in SESSIONS, query \in QUERIES :
        LET lowercaseQuery == toLowerCase(query)
        IN  \E data \in orderedByCreatedAtDesc(
                    {row \in selectRows(user) :
                        /\ row.user_id = user
                        /\ \/ ilike(row.iban, lowercaseQuery)
                           \/ ilike(row.owner_name, lowercaseQuery)}) :
                last' = DbCall("dbStorage.searchRecords", user, 0, FALSE, data)
    /\ UNCHANGED <<iban_records, localStorage, issued, clock, screen>>
    /\ UNCHANGED <<engineVars, scanner>>

\* deleteRecord of dbStorage.ts: the request names the id and nothing else.
DbDelete ==
    /\ \E user \in SESSIONS, id \in IDS :
        /\ iban_records' = deleteRows(user, id)
        /\ last' = DbCall("dbStorage.deleteRecord", user, id, FALSE, <<>>)
    /\ UNCHANGED <<localStorage, issued, clock, screen>>
    /\ UNCHANGED <<engineVars, scanner>>

\* A signed-in client other than the app reads the whole table.
RequestSelect ==
    /\ \E user \in SESSIONS :
        \E data \in orderedByCreatedAtDesc(selectRows(user)) :
            last' = DbCall("select", user, 0, FALSE, data)
    /\ UNCHANGED <<iban_records, localStorage, issued, clock, screen>>
    /\ UNCHANGED <<engineVars, scanner>>

\* Such a client inserts a row under a user_id of its choosing.
RequestInsert ==
    /\ issued < MaxRecords
    /\ \E user \in SESSIONS, user_id \in USERS, created_at \in Readings :
        LET record == [iban |-> Chars("NO9386011117947"),
                       ownerName |-> Chars("Ali")]
            row == newRow(user_id, record, randomUUID, created_at)
            done == insertRow(user, row)
        IN  /\ iban_records' = done.table
            /\ issued' = IF done.error THEN issued ELSE issued + 1
            /\ clock' = created_at
            /\ last' = DbCall("insert", user, row.id, done.error, <<>>)
    /\ UNCHANGED <<localStorage, screen>>
    /\ UNCHANGED <<engineVars, scanner>>

\* What such a client can set in an update.
CHANGES == { [owner_name |-> Chars("Ali")], [user_id |-> "u2"] }

\* Such a client updates the row of an id of its choosing.
RequestUpdate ==
    /\ \E user \in SESSIONS, id \in IDS, changes \in CHANGES :
        LET done == updateRows(user, id, changes)
        IN  /\ iban_records' = done.table
            /\ last' = DbCall("update", user, id, done.error, <<>>)
    /\ UNCHANGED <<localStorage, issued, clock, screen>>
    /\ UNCHANGED <<engineVars, scanner>>

RemoteInit == EngineAtRest /\ StoresAtStart

RemoteNext ==
    \/ DbSave
    \/ DbGetAll
    \/ DbSearch
    \/ DbDelete
    \/ RequestSelect
    \/ RequestInsert
    \/ RequestUpdate

\* The remote record store under the calls of several users.
RemoteSpec == RemoteInit /\ [][RemoteNext]_vars

\* ---- src/pages/Index.tsx and the screens it shows

\* const recentRecords = getAllRecords().slice(0, 3), with getAllRecords of
\* storage.ts.
recentRecords ==
    SubSeq(storage_getAllRecords, 1, Min(3, Len(storage_getAllRecords)))

\* The identifiers a scan can hand to the result screen.
SCANNED == {record.iban : record \in RECORDS}

\* What the user can have typed as the owner's name.
OWNER_NAMES == { Chars("Ali"), Chars(" Sara "), Chars("R2D2") }

\* validateOwnerName of the result screen: /^[\u0600-\u06FFa-zA-Z\s\-.']+$/
\* on the trimmed name, which may be empty and has at most 100 characters.
validateOwnerName(name) ==
    LET trimmed == trim(name)
    IN  \/ Len(trimmed) = 0
        \/ /\ Len(trimmed) <= 100
           /\ \A i \in 1..Len(trimmed) :
                  trimmed[i] \in Range(UPPER) \cup Range(LOWER) \cup WhiteSpace
                                 \cup LineTerminator \cup {"-", ".", "'"}

\* The home screen's scan button.
OpenScanner ==
    /\ screen.currentScreen = "home"
    /\ screen' = [screen EXCEPT !.currentScreen = "scanner"]
    /\ UNCHANGED <<iban_records, localStorage, issued, clock, last>>
    /\ UNCHANGED <<engineVars, scanner>>

\* handleIBANDetected of Index, as the screens see it.
ShowResult ==
    /\ screen.currentScreen = "scanner"
    /\ \E iban \in SCANNED :
        screen' = [screen EXCEPT !.scannedIBAN = iban,
                                 !.currentScreen = "result"]
    /\ UNCHANGED <<iban_records, localStorage, issued, clock, last>>
    /\ UNCHANGED <<engineVars, scanner>>

\* handleSave of the result screen, and handleRecordSaved of Index when the
\* save reports no error.
HandleSave ==
    /\ screen.currentScreen = "result"
    /\ issued < MaxRecords
    /\ \E ownerName \in OWNER_NAMES :
        IF ~validateOwnerName(ownerName)
        THEN /\ last' = NoStoreCall
             /\ UNCHANGED <<iban_records, issued, clock, screen>>
        ELSE /\ \E user \in SESSIONS, created_at \in Readings :
                    dbStorage_saveIBANRecord(user,
                        [iban |-> screen.scannedIBAN,
                         ownerName |-> trim(ownerName)], created_at)
             /\ screen' = IF last'.error
                          THEN screen
                          ELSE [screen EXCEPT
                                   !.refreshRecords = @ + 1,
                                   !.currentScreen = "home"]
    /\ UNCHANGED localStorage
    /\ UNCHANGED <<engineVars, scanner>>

\* The home screen's buttons to the saved-records list: the list mounts and
\* reads getAllRecords of storage.ts.
OpenRecords ==
    /\ screen.currentScreen = "home"
    /\ screen' = [screen EXCEPT !.currentScreen = "records",
                                !.searchQuery = <<>>,
                                !.records = storage_getAllRecords]
    /\ UNCHANGED <<iban_records, localStorage, issued, clock, last>>
    /\ UNCHANGED <<engineVars, scanner>>

\* onClose of the scanner, the result screen and the saved-records list.
OnClose ==
    /\ screen.currentScreen \in {"scanner", "result", "records"}
    /\ screen' = [screen EXCEPT !.currentScreen = "home"]
    /\ UNCHANGED <<iban_records, localStorage, issued, clock, last>>
    /\ UNCHANGED <<engineVars, scanner>>

AppInit == EngineAtRest /\ StoresAtStart

AppNext ==
    \/ OpenScanner
    \/ ShowResult
    \/ HandleSave
    \/ OpenRecords
    \/ HandleSearch
    \/ OnClose

\* The page as Index wires it: the result screen saves through dbStorage.ts,
\* the home screen and the saved-records list read through storage.ts.
AppSpec == AppInit /\ [][AppNext]_vars

\* ---- The camera scanner with live mode (src/unnamed/part_002)

\* How many processImage calls can be in progress at once in the model.
MaxInProgress == 2

\* videoRef.current and canvasRef.current: the <video> and <canvas> elements
\* are rendered, and the refs set, only while isLiveMode is true.
VideoMounted == scanner.isLiveMode

\* The start button, shown while not in live mode and enabled while nothing
\* is being processed: startLiveMode runs up to its await of getUserMedia.
\* A callback it later hands to setInterval calls the captureAndProcessFrame
\* of this render, which reads this render's isProcessing and lastScanTime.
StartLiveMode ==
    /\ ~scanner.isLiveMode /\ ~scanner.isProcessing /\ ~scanner.starting
    /\ scanner' = [scanner EXCEPT
                      !.starting = TRUE,
                      !.ticking = [isProcessing |-> scanner.isProcessing,
                                   lastScanTime |-> scanner.lastScanTime]]
    /\ UNCHANGED <<engineVars, storeVars>>

\* getUserMedia settles: rejected, or resolved with a stream, which is kept and
\* scanned every two seconds only if (videoRef.current).
GetUserMediaSettles ==
    /\ scanner.starting
    /\ \E resolved \in BOOLEAN :
        scanner' = IF resolved /\ VideoMounted
                   THEN [scanner EXCEPT !.starting = FALSE,
                                        !.streamRef = "stream",
                                        !.isLiveMode = TRUE,
                                        !.scanIntervalRef = "interval"]
                   ELSE [scanner EXCEPT !.starting = FALSE]
    /\ UNCHANGED <<engineVars, storeVars>>

\* The interval fires: captureAndProcessFrame, as the callback closed over it,
\* up to its call of processImage.
IntervalTick ==
    /\ scanner.scanIntervalRef # "null"
    /\ scanner.inProgress < MaxInProgress
    /\ \E tooSoon \in BOOLEAN :
        scanner' =
            IF ~VideoMounted \/ scanner.ticking.isProcessing
            THEN scanner
            ELSE IF scanner.ticking.lastScanTime # 0 /\ tooSoon
            THEN scanner
            ELSE [scanner EXCEPT !.lastScanTime = 1,
                                 !.isProcessing = TRUE,
                                 !.inProgress = @ + 1]
    /\ UNCHANGED <<engineVars, storeVars>>

\* The capture and gallery buttons, shown while not in live mode and enabled
\* while nothing is being processed: the camera or the gallery opens over
\* the page.
HandleCapture ==
    /\ ~scanner.isLiveMode /\ ~scanner.isProcessing /\ ~scanner.picking
    /\ scanner' = [scanner EXCEPT !.picking = TRUE]
    /\ UNCHANGED <<engineVars, storeVars>>

\* Camera.getPhoto settles: with no image, or with one that processImage
\* starts on.
GetPhotoSettles ==
    /\ scanner.picking
    /\ scanner.inProgress < MaxInProgress
    /\ \E image \in BOOLEAN :
        scanner' = IF image
                   THEN [scanner EXCEPT !.picking = FALSE,
                                        !.isProcessing = TRUE,
                                        !.inProgress = @ + 1]
                   ELSE [scanner EXCEPT !.picking = FALSE]
    /\ UNCHANGED <<engineVars, storeVars>>

\* A processImage call reaches its finally.
ProcessImageSettles ==
    /\ scanner.inProgress > 0
    /\ scanner' = [scanner EXCEPT !.isProcessing = FALSE,
                                  !.inProgress = @ - 1]
    /\ UNCHANGED <<engineVars, storeVars>>

\* The stop button of live mode.
StopLiveMode ==
    /\ scanner.isLiveMode
    /\ scanner' = [scanner EXCEPT !.scanIntervalRef = "null",
                                  !.streamRef = "null",
                                  !.isLiveMode = FALSE]
    /\ UNCHANGED <<engineVars, storeVars>>

ScannerInit == EngineAtRest /\ StoresAtStart

ScannerNext ==
    \/ StartLiveMode
    \/ GetUserMediaSettles
    \/ IntervalTick
    \/ HandleCapture
    \/ GetPhotoSettles
    \/ ProcessImageSettles
    \/ StopLiveMode

\* The camera scanner from the moment it mounts.
ScannerSpec == ScannerInit /\ [][ScannerNext]_vars

\* startLiveMode finds videoRef.current empty every time: live mode is never
\* entered and no interval is ever set.
LiveModeNeverStarts ==
    /\ ~scanner.isLiveMode
    /\ scanner.scanIntervalRef = "null"
    /\ scanner.streamRef = "null"

\* ------------------------------------------------------------------------
\* C25: in the local record store each saveIBANRecord call adds exactly one
\* record, with an id no stored record has, at the front of the list; and
\* after any saveIBANRecord, deleteRecord and updateRecord calls the list
\* getAllRecords returns has the surviving records most-recently-saved first
\* and no two of them share an id.
\* ------------------------------------------------------------------------

IdsOf(records) == {records[i].id : i \in 1..Len(records)}

PairwiseDistinctIds(records) ==
    \A i, j \in 1..Len(records) : i # j => records[i].id # records[j].id

MostRecentlySavedFirst(records) ==
    \A i, j \in 1..Len(records) :
        i < j => records[i].savedAs > records[j].savedAs

\* Right after a saveIBANRecord call: the record it returned is the first of
\* the list and no record behind it has its id.
SavedOneFreshAtFront ==
    last.op = "storage.saveIBANRecord" =>
        /\ Len(storage_getAllRecords) >= 1
        /\ Head(storage_getAllRecords) = last.returned[1]
        /\ last.returned[1].id \notin IdsOf(Tail(storage_getAllRecords))

C25_FreshAtFrontRecentFirstDistinctIds ==
    /\ SavedOneFreshAtFront
    /\ MostRecentlySavedFirst(storage_getAllRecords)
    /\ PairwiseDistinctIds(storage_getAllRecords)

\* ------------------------------------------------------------------------
\* C26: in the local record store deleteRecord(id) removes the records that
\* have that id and no other, keeping the rest as they were and in the order
\* they had, and leaves the list as it was when no record has the id;
\* updateRecord(id, updates) changes at most one record, one that has that
\* id, and changes nothing when no record has the id.
\* ------------------------------------------------------------------------

\* The places of the records that do not have the id, and the k-th of them.
PlacesWithout(records, id) == {i \in 1..Len(records) : records[i].id # id}

NthPlace(places, k) ==
    CHOOSE p \in places : Cardinality({q \in places : q < p}) = k - 1

DeleteRemovesOnlyThatId ==
    last'.op = "storage.deleteRecord" =>
        LET before == storage_getAllRecords
            after == storage_getAllRecords'
            kept == PlacesWithout(before, last'.id)
        IN  /\ Len(after) = Cardinality(kept)
            /\ \A k \in 1..Len(after) : after[k] = before[NthPlace(kept, k)]
            /\ (last'.id \notin IdsOf(before)) => after = before

UpdateChangesOnlyThatId ==
    last'.op = "storage.updateRecord" =>
        LET before == storage_getAllRecords
            after == storage_getAllRecords'
            changed == {i \in 1..Len(before) : after[i] # before[i]}
        IN  /\ Len(after) = Len(before)
            /\ Cardinality(changed) <= 1
            /\ \A i \in changed : before[i].id = last'.id
            /\ (last'.id \notin IdsOf(before)) => localStorage' = localStorage

OnlyOwnRowsReturned ==
    \A i \in 1..Len(last'.returned) : last'.returned[i].user_id = last'.user

OnlyOwnRowsTouched ==
    /\ \A row \in iban_records \ iban_records' : row.user_id = last'.user
    /\ \A row \in iban_records' \ iban_records : row.user_id = last'.user

C24_UsersReachOnlyOwnRows ==
    [][OnlyOwnRowsReturned /\ OnlyOwnRowsTouched]_vars

\* A user has called deleteRecord with the id of a row of another user, while
\* holding a row of their own.
C24_Witness ==
    /\ last.op = "dbStorage.deleteRecord"
    /\ last.user \in USERS
    /\ \E row \in iban_records : row.id = last.id /\ row.user_id # last.user
    /\ \E row \in iban_records : row.user_id = last.user

\* ------------------------------------------------------------------------
\* C27: once a save on the result screen has been reported as successful
\* (onSaved was called), the record saved is among the home screen's recent
\* records and among the records the saved-records list shows.
\* ------------------------------------------------------------------------

SavedOnResultScreen ==
    last.op = "dbStorage.saveIBANRecord" /\ ~last.error

IsTheSavedRecord(record) ==
    /\ record.id = last.returned[1].id
    /\ record.iban = last.returned[1].iban

C27_SavedRecordIsListed ==
    SavedOnResultScreen =>
        /\ screen.currentScreen = "home" =>
               \E i \in 1..Len(recentRecords) :
                   IsTheSavedRecord(recentRecords[i])
        /\ (screen.currentScreen = "records" /\ trim(screen.searchQuery) = <<>>)
               => \E i \in 1..Len(screen.records) :
                      IsTheSavedRecord(screen.records[i])

====
